---------------------------- MODULE Spec2Model ----------------------------
(***************************************************************************)
(* Toss: relay server (relay_server/src), client network manager           *)
(* (rust_core/src/network) and client API layer (rust_core/src/api).       *)
(*                                                                         *)
(* Three groups of variables, one per component.  Each component has its   *)
(* own next-state relation and specification; a specification leaves the   *)
(* variables of the other components unchanged.                            *)
(***************************************************************************)
EXTENDS Integers, Sequences, FiniteSets, TLC

(***************************************************************************)
(* Bounds of the model                                                     *)
(***************************************************************************)
MaxMsgs == 2
MaxTime == 1
MaxConnMsgs == 1
MaxTokens == 2
MaxUnregMsgs == 1
MaxSends == 2
MaxClockMs == 150
MaxInits == 2
MaxPairings == 2
MaxRendezvousTime == 301
MaxRendezvousMsgs == 1
MaxInbound == 2
MaxRelaySends == 1
MaxEnvelopes == 2
MaxTokenAge == 2

(***************************************************************************)
(* Program constants                                                       *)
(***************************************************************************)
AuthWindowSecs == 300
ChannelCapacity == 100

(***************************************************************************)
(* Relay server: value sets                                                *)
(***************************************************************************)
RelayDevices == {"X", "Y"}
RelayKeys == {"kX", "kY"}
RelayNames == {"n1", "n2"}
Payloads == {"pa"}
Sockets == {"s1", "s2"}
Skews == {300, 301}

\* a signature is named by the key that made it; "malformed" is a value
\* that is not 64 bytes of base64
Signatures == RelayKeys \cup {"malformed"}

NoDevice == [pk |-> "none", name |-> "none"]
NoConn == "none"

OwnKey(d) == IF d = "X" THEN "kX" ELSE "kY"

\* WsMessage::Auth as authenticate() sees it: the device id, the distance of
\* its timestamp from the server clock, the key that made the signature and
\* the public key found in the devices table
AuthMsg(d, skew, signer, pk) ==
    [device_id |-> d, skew |-> skew, signer |-> signer, pk |-> pk]
NoAuth == AuthMsg("none", 0, "none", "none")

\* JWT claims {sub, iat, exp}
Claims(sub, iat, exp) == [sub |-> sub, iat |-> iat, exp |-> exp]
NoToken == Claims("none", 0, 0)

VARIABLES
    r_devices,     \* devices table: id -> [pk, name] or NoDevice
    r_tokens,      \* claims of the bearer tokens issued so far
    r_queue,       \* message_queue rows, in insertion (rowid) order
    r_now,         \* server wall clock, seconds
    r_conns,       \* RelayState.connections: device -> socket whose tx is registered
    r_pending,     \* relay requests between send_to() = false and queue_message()
    r_waiting,     \* relay requests inside send_to(), waiting for channel capacity
    r_accepted,    \* requests answered 202 / handled, in order of acceptance
    r_delivered,   \* per device: relay messages written to its WebSocket
    r_del,         \* per device: position of a running unregister_device
    r_reg,         \* the last request to POST/DELETE /register and its answer
    ws_pc,         \* per socket: position of handle_socket
    ws_dev,        \* per socket: authenticated device id
    ws_chan,       \* per socket: contents of the mpsc channel (tx -> rx)
    ws_snap,       \* per socket: queued rows fetched and not yet written
    ws_broken,     \* per socket: a write on the socket has failed
    ws_auth        \* per socket: the auth message authenticate() accepted

relayVars == <<r_devices, r_tokens, r_queue, r_now, r_conns,
               r_pending, r_waiting, r_accepted, r_delivered, r_del, r_reg,
               ws_pc, ws_dev, ws_chan, ws_snap, ws_broken, ws_auth>>

\* the variables of the HTTP side and of the WebSocket side
wsVars == <<ws_pc, ws_dev, ws_chan, ws_snap, ws_broken, ws_auth>>
msgVars == <<r_pending, r_waiting, r_accepted, r_delivered>>

(***************************************************************************)
(* Helpers on sequences                                                    *)
(***************************************************************************)
Range(s) == {s[i] : i \in DOMAIN s}

RECURSIVE SelectRows(_, _)
SelectRows(s, d) ==
    IF s = <<>> THEN <<>>
    ELSE IF Head(s).to = d THEN <<Head(s)>> \o SelectRows(Tail(s), d)
         ELSE SelectRows(Tail(s), d)

RECURSIVE RemoveRowsTo(_, _)
RemoveRowsTo(s, d) ==
    IF s = <<>> THEN <<>>
    ELSE IF Head(s).to = d THEN RemoveRowsTo(Tail(s), d)
         ELSE <<Head(s)>> \o RemoveRowsTo(Tail(s), d)

RECURSIVE RemoveRowsOf(_, _)
RemoveRowsOf(s, d) ==
    IF s = <<>> THEN <<>>
    ELSE IF Head(s).from = d \/ Head(s).to = d THEN RemoveRowsOf(Tail(s), d)
         ELSE <<Head(s)>> \o RemoveRowsOf(Tail(s), d)

IsSortedByCreatedAt(s) ==
    \A i \in DOMAIN s : \A j \in DOMAIN s : i < j => s[i].created_at <= s[j].created_at

\* All orderings of the rows of s
Orderings(s) ==
    {t \in [DOMAIN s -> Range(s)] : \A i \in DOMAIN s : \E j \in DOMAIN s : t[j] = s[i]}

(***************************************************************************)
(* Configuration (relay_server/src/config.rs), as set in the environment   *)
(***************************************************************************)
jwt_expiration == 1
rate_limit_messages == 1

(***************************************************************************)
(* Database (relay_server/src/db/mod.rs)                                   *)
(***************************************************************************)
\* SELECT ... WHERE to_device = ? ORDER BY created_at ASC.  created_at is
\* in whole seconds; rows with equal created_at come in any order.
get_queued_messages(d) ==
    {t \in Orderings(SelectRows(r_queue, d)) : IsSortedByCreatedAt(t)}

delete_queued_messages(d) == RemoveRowsTo(r_queue, d)

queue_message(id, from, to, payload) ==
    Append(r_queue, [id |-> id, from |-> from, to |-> to,
                     payload |-> payload, created_at |-> r_now])

\* INSERT ... ON CONFLICT(id) DO NOTHING
upsert_device_keeps_row(d, pk, name) ==
    IF r_devices[d] = NoDevice
    THEN [r_devices EXCEPT ![d] = [pk |-> pk, name |-> name]]
    ELSE r_devices

\* INSERT ... ON CONFLICT(id) DO UPDATE SET device_name, updated_at
upsert_device(d, pk, name) ==
    IF r_devices[d] = NoDevice
    THEN [r_devices EXCEPT ![d] = [pk |-> pk, name |-> name]]
    ELSE [r_devices EXCEPT ![d].name = name]

\* the foreign keys of message_queue: a row may name only existing devices
HasQueueRows(d) == \E i \in DOMAIN r_queue : r_queue[i].from = d \/ r_queue[i].to = d

(***************************************************************************)
(* Tokens (relay_server/src/auth/mod.rs)                                   *)
(***************************************************************************)
\* Validation::default() of the jsonwebtoken crate: exp is validated with a
\* leeway of 60 seconds
JwtLeeway == 60

create_token(device_id) == Claims(device_id, r_now, r_now + jwt_expiration)

Unauthorized == "401"

\* AuthenticatedDevice::from_request_parts: the device id of a token whose
\* signature and expiry validate
from_request_parts(tok) ==
    IF tok \in r_tokens /\ tok.exp + JwtLeeway >= r_now THEN tok.sub ELSE Unauthorized

(***************************************************************************)
(* RelayState (relay_server/src/relay/mod.rs)                              *)
(***************************************************************************)
is_connected(d) == r_conns[d] # NoConn

RelayMsg(id, from, to, payload) ==
    [id |-> id, from |-> from, to |-> to, payload |-> payload]

\* send_to: connections.get(device_id) finds a sender; sender.send().await
\* completes at once when the channel has capacity and waits otherwise
SendToHasTarget(d) == is_connected(d)
CanSendTo(d) == is_connected(d) /\ Len(ws_chan[r_conns[d]]) < ChannelCapacity

NotFound == "404"

\* GET /api/v1/devices/{device_id}/status: is_online comes from the connection map
device_status(d) ==
    IF r_devices[d] = NoDevice THEN NotFound
    ELSE [device_id |-> d, is_online |-> is_connected(d)]

(***************************************************************************)
(* Initial state                                                           *)
(***************************************************************************)
NoReg ==
    [op |-> "none", device_id |-> "none", pk |-> "none", name |-> "none",
     skew |-> 0, signature |-> "none", before |-> NoDevice,
     token |-> NoToken, at |-> 0, status |-> 0]

RelayInit ==
    /\ r_devices = [d \in RelayDevices |-> NoDevice]
    /\ r_tokens = {}
    /\ r_queue = <<>>
    /\ r_now = 0
    /\ r_conns = [d \in RelayDevices |-> NoConn]
    /\ r_pending = {}
    /\ r_waiting = {}
    /\ r_accepted = <<>>
    /\ r_delivered = [d \in RelayDevices |-> <<>>]
    /\ r_del = [d \in RelayDevices |-> "none"]
    /\ r_reg = NoReg
    /\ ws_pc = [s \in Sockets |-> "idle"]
    /\ ws_dev = [s \in Sockets |-> "none"]
    /\ ws_chan = [s \in Sockets |-> <<>>]
    /\ ws_snap = [s \in Sockets |-> <<>>]
    /\ ws_broken = [s \in Sockets |-> FALSE]
    /\ ws_auth = [s \in Sockets |-> NoAuth]

(***************************************************************************)
(* POST /api/v1/register                                                   *)
(***************************************************************************)
\* the checks of register_device without the timestamp window
RegisterStatusNoWindow(pk, skew, signature) ==
    IF signature = "malformed" THEN 400
    ELSE IF signature # pk THEN 401
    ELSE 200

\* base64 decoding, timestamp window, verify_signature
RegisterStatus(pk, skew, signature) ==
    IF signature = "malformed" \/ skew > AuthWindowSecs THEN 400
    ELSE IF signature # pk THEN 401
    ELSE 200

RegisterAnswer(d, pk, name, skew, signature, status) ==
    [op |-> "register", device_id |-> d, pk |-> pk, name |-> name,
     skew |-> skew, signature |-> signature, before |-> r_devices[d],
     token |-> IF status = 200 THEN create_token(d) ELSE NoToken,
     at |-> r_now, status |-> status]

register_device(d, pk, name, skew, signature) ==
    /\ IF RegisterStatus(pk, skew, signature) # 200
       THEN UNCHANGED <<r_devices, r_tokens>>
       ELSE /\ r_devices' = upsert_device(d, pk, name)
            /\ r_tokens' = r_tokens \cup {create_token(d)}
    /\ r_reg' = RegisterAnswer(d, pk, name, skew, signature,
                               RegisterStatus(pk, skew, signature))
    /\ UNCHANGED <<r_queue, r_now, r_conns, r_del, msgVars, wsVars>>

(***************************************************************************)
(* DELETE /api/v1/register                                                 *)
(***************************************************************************)
UnregisterAnswer(tok, d, status) ==
    [NoReg EXCEPT !.op = "unregister", !.device_id = d, !.token = tok,
                  !.at = r_now, !.status = status]

\* the extractor, then the first statement of delete_device:
\* DELETE FROM message_queue WHERE from_device = ? OR to_device = ?
unregister_device(tok) ==
    /\ IF from_request_parts(tok) = Unauthorized
       THEN /\ r_reg' = UnregisterAnswer(tok, tok.sub, 401)
            /\ UNCHANGED <<r_queue, r_del>>
       ELSE /\ r_del[tok.sub] = "none"
            /\ r_queue' = RemoveRowsOf(r_queue, tok.sub)
            /\ r_del' = [r_del EXCEPT ![tok.sub] = "purged"]
            /\ r_reg' = [UnregisterAnswer(tok, tok.sub, 0) EXCEPT !.op = "unregistering"]
    /\ UNCHANGED <<r_devices, r_tokens, r_now, r_conns, msgVars, wsVars>>

\* the second statement of delete_device: DELETE FROM devices WHERE id = ?
\* It fails, and the handler answers 500, while a message_queue row names
\* the device.
delete_device(d) ==
    /\ r_del[d] = "purged"
    /\ IF HasQueueRows(d)
       THEN /\ r_del' = [r_del EXCEPT ![d] = "none"]
            /\ r_reg' = [NoReg EXCEPT !.op = "unregister", !.device_id = d,
                                      !.at = r_now, !.status = 500]
            /\ UNCHANGED r_devices
       ELSE /\ r_del' = [r_del EXCEPT ![d] = "deleted"]
            /\ r_devices' = [r_devices EXCEPT ![d] = NoDevice]
            /\ UNCHANGED r_reg
    /\ UNCHANGED <<r_tokens, r_queue, r_now, r_conns, msgVars, wsVars>>

\* state.relay.unregister(&auth.device_id), then 204
unregister_respond(d) ==
    /\ r_del[d] = "deleted"
    /\ r_del' = [r_del EXCEPT ![d] = "none"]
    /\ r_conns' = [r_conns EXCEPT ![d] = NoConn]
    /\ r_reg' = [NoReg EXCEPT !.op = "unregister", !.device_id = d,
                              !.at = r_now, !.status = 204]
    /\ UNCHANGED <<r_devices, r_tokens, r_queue, r_now, msgVars, wsVars>>

(***************************************************************************)
(* Building and routing a RelayMessage (shared by relay_message and        *)
(* handle_client_message): try the live channel, else leave the request    *)
(* to be queued.  A message is identified by the order of its acceptance.  *)
(***************************************************************************)
NextId == Len(r_accepted) + 1

\* relay requests taken up so far
MsgCount == Len(r_accepted) + Cardinality(r_pending) + Cardinality(r_waiting)

Accepted(from, to, payload, via, live) ==
    [id |-> NextId, from |-> from, to |-> to, payload |-> payload,
     via |-> via, live |-> live]

Request(from, to, payload, via) ==
    [from |-> from, to |-> to, payload |-> payload, src |-> via]

Waiting(from, to, payload, via, s) ==
    [from |-> from, to |-> to, payload |-> payload, src |-> via, sock |-> s]

route_message(from, to, payload, via) ==
    IF SendToHasTarget(to)
    THEN IF CanSendTo(to)
         THEN /\ ws_chan' = [ws_chan EXCEPT ![r_conns[to]] =
                                Append(@, RelayMsg(NextId, from, to, payload))]
              /\ r_accepted' = Append(r_accepted, Accepted(from, to, payload, via, TRUE))
              /\ UNCHANGED <<r_pending, r_waiting>>
         ELSE /\ Waiting(from, to, payload, via, r_conns[to]) \notin r_waiting
              /\ r_waiting' = r_waiting \cup {Waiting(from, to, payload, via, r_conns[to])}
              /\ UNCHANGED <<ws_chan, r_accepted, r_pending>>
    ELSE /\ Request(from, to, payload, via) \notin r_pending
         /\ r_pending' = r_pending \cup {Request(from, to, payload, via)}
         /\ UNCHANGED <<ws_chan, r_accepted, r_waiting>>

\* sender.send().await returns Ok once the channel has room again
send_to_resume(w) ==
    /\ w \in r_waiting
    /\ Len(ws_chan[w.sock]) < ChannelCapacity
    /\ r_waiting' = r_waiting \ {w}
    /\ ws_chan' = [ws_chan EXCEPT ![w.sock] =
                      Append(@, RelayMsg(NextId, w.from, w.to, w.payload))]
    /\ r_accepted' = Append(r_accepted, Accepted(w.from, w.to, w.payload, w.src, TRUE))
    /\ UNCHANGED <<r_devices, r_tokens, r_queue, r_now, r_conns, r_pending,
                   r_delivered, r_del, r_reg,
                   ws_pc, ws_dev, ws_snap, ws_broken, ws_auth>>

(***************************************************************************)
(* POST /api/v1/relay/{device_id}: up to and including send_to             *)
(***************************************************************************)
relay_message(tok, to, payload) ==
    /\ IF from_request_parts(tok) = Unauthorized \/ r_devices[to] = NoDevice
       THEN UNCHANGED <<ws_chan, r_pending, r_waiting, r_accepted>>
       ELSE route_message(tok.sub, to, payload, "push")
    /\ UNCHANGED <<r_devices, r_tokens, r_queue, r_now, r_conns, r_delivered,
                   r_del, r_reg, ws_pc, ws_dev, ws_snap, ws_broken, ws_auth>>

\* ... the rest of relay_message / handle_client_message: queue_message.
\* The foreign keys of message_queue make the insert fail when either
\* device row is missing.
relay_message_queue(m) ==
    /\ m \in r_pending
    /\ r_pending' = r_pending \ {m}
    /\ IF r_devices[m.from] # NoDevice /\ r_devices[m.to] # NoDevice
       THEN /\ r_queue' = queue_message(NextId, m.from, m.to, m.payload)
            /\ r_accepted' = Append(r_accepted,
                                 Accepted(m.from, m.to, m.payload,
                                          IF m.src = "push" THEN "queue" ELSE "ws_queue",
                                          is_connected(m.to)))
       ELSE UNCHANGED <<r_queue, r_accepted>>
    /\ UNCHANGED <<r_devices, r_tokens, r_now, r_conns, r_waiting, r_delivered,
                   r_del, r_reg, wsVars>>

(***************************************************************************)
(* GET /api/v1/ws: handle_socket                                           *)
(***************************************************************************)
\* authenticate() without verify_signature
authenticate_unsigned(s, d, skew, signature) ==
    /\ ws_pc[s] = "idle"
    /\ IF signature = "malformed" \/ skew > AuthWindowSecs \/ r_devices[d] = NoDevice
       THEN UNCHANGED <<ws_pc, ws_dev, ws_auth>>
       ELSE /\ ws_pc' = [ws_pc EXCEPT ![s] = "authenticated"]
            /\ ws_dev' = [ws_dev EXCEPT ![s] = d]
            /\ ws_auth' = [ws_auth EXCEPT ![s] = AuthMsg(d, skew, signature, r_devices[d].pk)]
    /\ UNCHANGED <<r_devices, r_tokens, r_queue, r_now, r_conns, r_del, r_reg,
                   msgVars, ws_chan, ws_snap, ws_broken>>

\* handle_socket from the upgrade through authenticate(): the first frame
\* is an auth message whose timestamp is fresh, whose device is in the
\* devices table and whose signature verifies under the stored key.  Any
\* other outcome, the 10 s timeout included, returns without registering.
authenticate(s, d, skew, signature) ==
    /\ ws_pc[s] = "idle"
    /\ IF \/ signature = "malformed"
          \/ skew > AuthWindowSecs
          \/ r_devices[d] = NoDevice
          \/ signature # r_devices[d].pk
       THEN UNCHANGED <<ws_pc, ws_dev, ws_auth>>
       ELSE /\ ws_pc' = [ws_pc EXCEPT ![s] = "authenticated"]
            /\ ws_dev' = [ws_dev EXCEPT ![s] = d]
            /\ ws_auth' = [ws_auth EXCEPT ![s] = AuthMsg(d, skew, signature, r_devices[d].pk)]
    /\ UNCHANGED <<r_devices, r_tokens, r_queue, r_now, r_conns, r_del, r_reg,
                   msgVars, ws_chan, ws_snap, ws_broken>>

\* after the AuthResponse has been written: mpsc::channel(100),
\* state.relay.register(device_id, tx), update_device_status(true).
\* The sender that the map held before is dropped.
ws_register(s) ==
    /\ ws_pc[s] = "authenticated"
    /\ ws_pc' = [ws_pc EXCEPT ![s] = "registered"]
    /\ ws_chan' = [ws_chan EXCEPT ![s] = <<>>]
    /\ r_conns' = [r_conns EXCEPT ![ws_dev[s]] = s]
    /\ UNCHANGED <<r_devices, r_tokens, r_queue, r_now, r_del, r_reg,
                   msgVars, ws_dev, ws_snap, ws_broken, ws_auth>>

\* state.db.get_queued_messages(&device_id)
ws_fetch_queued(s) ==
    /\ ws_pc[s] = "registered"
    /\ \E snap \in get_queued_messages(ws_dev[s]) :
         /\ ws_snap' = [ws_snap EXCEPT ![s] = snap]
         /\ ws_pc' = [ws_pc EXCEPT ![s] = IF snap = <<>> THEN "deleting" ELSE "flushing"]
    /\ UNCHANGED <<r_devices, r_tokens, r_queue, r_now, r_conns, r_del, r_reg,
                   msgVars, ws_dev, ws_chan, ws_broken, ws_auth>>

\* one iteration of "for msg in queued": sender.send(...) succeeds, or fails
\* and the loop breaks
ws_flush_one(s, ok) ==
    /\ ws_pc[s] = "flushing"
    /\ ws_snap[s] # <<>>
    /\ IF ok /\ ~ws_broken[s]
       THEN /\ r_delivered' = [r_delivered EXCEPT ![ws_dev[s]] =
                 Append(@, RelayMsg(Head(ws_snap[s]).id, Head(ws_snap[s]).from,
                                    Head(ws_snap[s]).to, Head(ws_snap[s]).payload))]
            /\ ws_snap' = [ws_snap EXCEPT ![s] = Tail(@)]
            /\ ws_pc' = [ws_pc EXCEPT ![s] =
                 IF Tail(ws_snap[s]) = <<>> THEN "deleting" ELSE "flushing"]
            /\ UNCHANGED ws_broken
       ELSE /\ ws_broken' = [ws_broken EXCEPT ![s] = TRUE]
            /\ ws_snap' = [ws_snap EXCEPT ![s] = <<>>]
            /\ ws_pc' = [ws_pc EXCEPT ![s] = "deleting"]
            /\ UNCHANGED r_delivered
    /\ UNCHANGED <<r_devices, r_tokens, r_queue, r_now, r_conns, r_del, r_reg,
                   r_pending, r_waiting, r_accepted, ws_dev, ws_chan, ws_auth>>

\* state.db.delete_queued_messages(&device_id)
ws_delete_queued(s) ==
    /\ ws_pc[s] = "deleting"
    /\ r_queue' = delete_queued_messages(ws_dev[s])
    /\ ws_pc' = [ws_pc EXCEPT ![s] = "active"]
    /\ UNCHANGED <<r_devices, r_tokens, r_now, r_conns, r_del, r_reg,
                   msgVars, ws_dev, ws_chan, ws_snap, ws_broken, ws_auth>>

\* requests waiting in send_to() on the channel of socket s
WaitingOn(s) == {w \in r_waiting : w.sock = s}
Unblocked(w) == Request(w.from, w.to, w.payload, w.src)

\* leaving the main loop: unregister(&device_id), mark offline, drop rx.
\* Dropping rx makes every send() that waits on the channel return Err, so
\* that send_to() is false and the request goes on to queue_message.
ws_cleanup(s) ==
    /\ ws_pc' = [ws_pc EXCEPT ![s] = "idle"]
    /\ r_conns' = [r_conns EXCEPT ![ws_dev[s]] = NoConn]
    /\ ws_chan' = [ws_chan EXCEPT ![s] = <<>>]
    /\ ws_dev' = [ws_dev EXCEPT ![s] = "none"]
    /\ ws_broken' = [ws_broken EXCEPT ![s] = FALSE]
    /\ ws_auth' = [ws_auth EXCEPT ![s] = NoAuth]
    /\ r_waiting' = r_waiting \ WaitingOn(s)
    /\ r_pending' = r_pending \cup {Unblocked(w) : w \in WaitingOn(s)}

\* main loop, rx.recv() branch
ws_deliver(s, ok) ==
    /\ ws_pc[s] = "active"
    /\ ws_chan[s] # <<>>
    /\ IF ok /\ ~ws_broken[s]
       THEN /\ r_delivered' = [r_delivered EXCEPT ![ws_dev[s]] = Append(@, Head(ws_chan[s]))]
            /\ ws_chan' = [ws_chan EXCEPT ![s] = Tail(@)]
            /\ UNCHANGED <<ws_pc, r_conns, ws_dev, ws_broken, ws_auth,
                           r_waiting, r_pending>>
       ELSE /\ ws_cleanup(s)
            /\ UNCHANGED r_delivered
    /\ UNCHANGED <<r_devices, r_tokens, r_queue, r_now, r_del, r_reg,
                   r_accepted, ws_snap>>

\* main loop, receiver.next() branch: Close frame or error
ws_close(s) ==
    /\ ws_pc[s] = "active"
    /\ ws_cleanup(s)
    /\ UNCHANGED <<r_devices, r_tokens, r_queue, r_now, r_del, r_reg,
                   r_accepted, r_delivered, ws_snap>>

\* main loop, receiver.next() branch: {"type":"send"} handled by
\* handle_client_message, up to and including send_to
handle_client_message(s, to, payload) ==
    /\ ws_pc[s] = "active"
    /\ ~ws_broken[s]
    /\ route_message(ws_dev[s], to, payload, "ws_push")
    /\ UNCHANGED <<r_devices, r_tokens, r_queue, r_now, r_conns, r_delivered,
                   r_del, r_reg, ws_pc, ws_dev, ws_snap, ws_broken, ws_auth>>

\* the server clock advances by dt seconds
RelayTick(dt) ==
    /\ r_now' = r_now + dt
    /\ UNCHANGED <<r_devices, r_tokens, r_queue, r_conns, r_del, r_reg,
                   msgVars, wsVars>>

MainSockets == {"s1"}

(***************************************************************************)
(* Registration, unregistration and token expiry of one device             *)
(***************************************************************************)
RegNext ==
    \/ \E d \in {"X"}, pk \in RelayKeys, name \in RelayNames,
          skew \in Skews, sig \in Signatures :
          register_device(d, pk, name, skew, sig)
    \/ \E tok \in r_tokens : unregister_device(tok)
    \/ \E d \in RelayDevices : delete_device(d)
    \/ \E d \in RelayDevices : unregister_respond(d)

(***************************************************************************)
(* Tokens presented while the clock advances: second by second up to       *)
(* MaxTokenAge, and once by the leeway of the token validation             *)
(***************************************************************************)
TokenNext ==
    \/ \E d \in RelayDevices :
          Cardinality(r_tokens) < MaxTokens
          /\ register_device(d, OwnKey(d), "n1", AuthWindowSecs, OwnKey(d))
    \/ \E tok \in r_tokens : unregister_device(tok)
    \/ \E d \in RelayDevices : delete_device(d)
    \/ \E d \in RelayDevices : unregister_respond(d)
    \/ r_now < MaxTokenAge /\ RelayTick(1)
    \/ r_now <= MaxTokenAge /\ RelayTick(JwtLeeway)

(***************************************************************************)
(* Unregistration while relay requests and a WebSocket connection run      *)
(***************************************************************************)
\* no registration overlaps a running unregistration
UnregNext ==
    \/ \E d \in RelayDevices :
          (\A e \in RelayDevices : r_del[e] = "none")
          /\ register_device(d, OwnKey(d), "n1", AuthWindowSecs, OwnKey(d))
    \/ \E tok \in r_tokens : unregister_device(tok)
    \/ \E d \in RelayDevices : delete_device(d)
    \/ \E d \in RelayDevices : unregister_respond(d)
    \/ \E tok \in r_tokens, to \in RelayDevices, p \in Payloads :
          MsgCount < MaxUnregMsgs /\ relay_message(tok, to, p)
    \/ \E m \in r_pending : relay_message_queue(m)
    \/ \E s \in MainSockets, d \in RelayDevices :
          authenticate(s, d, AuthWindowSecs, OwnKey(d))
    \/ \E s \in MainSockets : ws_register(s)
    \/ \E s \in MainSockets : ws_fetch_queued(s)
    \/ \E s \in MainSockets : ws_flush_one(s, TRUE)
    \/ \E s \in MainSockets : ws_delete_queued(s)
    \/ \E s \in MainSockets : ws_deliver(s, TRUE)
    \/ \E s \in MainSockets : ws_close(s)
    \/ \E s \in MainSockets, to \in RelayDevices, p \in Payloads :
          MsgCount < MaxUnregMsgs /\ handle_client_message(s, to, p)

(***************************************************************************)
(* Pushes to a recipient that connected before the first push, until its   *)
(* channel is full                                                         *)
(***************************************************************************)
MaxPushes == ChannelCapacity + 1

FullNext ==
    \/ \E d \in RelayDevices :
          r_conns["Y"] = NoConn
          /\ register_device(d, OwnKey(d), "n1", AuthWindowSecs, OwnKey(d))
    \/ \E s \in MainSockets :
          r_accepted = <<>> /\ r_pending = {}
          /\ authenticate(s, "Y", AuthWindowSecs, OwnKey("Y"))
    \/ \E s \in MainSockets : ws_register(s)
    \/ \E s \in MainSockets : ws_fetch_queued(s)
    \/ \E s \in MainSockets : ws_delete_queued(s)
    \/ \E tok \in r_tokens, p \in Payloads :
          MsgCount < MaxPushes /\ tok.sub = "X" /\ is_connected("Y")
          /\ relay_message(tok, "Y", p)
    \/ \E w \in r_waiting : send_to_resume(w)
    \/ \E s \in MainSockets : ws_deliver(s, TRUE)
    \/ \E s \in MainSockets : ws_close(s)
    \/ \E m \in r_pending : relay_message_queue(m)

(***************************************************************************)
(* Connects, reconnects and disconnects over two sockets                   *)
(***************************************************************************)
ConnNext ==
    \/ \E d \in {"X"} :
          register_device(d, OwnKey(d), "n1", AuthWindowSecs, OwnKey(d))
    \/ \E s \in Sockets, d \in RelayDevices, skew \in Skews, sig \in Signatures :
          authenticate(s, d, skew, sig)
    \/ \E s \in Sockets : ws_register(s)
    \/ \E s \in Sockets : ws_fetch_queued(s)
    \/ \E s \in Sockets, ok \in BOOLEAN : ws_flush_one(s, ok)
    \/ \E s \in Sockets : ws_delete_queued(s)
    \/ \E s \in Sockets, ok \in BOOLEAN : ws_deliver(s, ok)
    \/ \E s \in Sockets : ws_close(s)
    \/ \E s \in Sockets, to \in RelayDevices, p \in Payloads :
          MsgCount < MaxConnMsgs /\ handle_client_message(s, to, p)
    \/ \E m \in r_pending : relay_message_queue(m)

(***************************************************************************)
(* Messaging over one WebSocket connection                                 *)
(***************************************************************************)

RelayNext ==
    \/ \E d \in RelayDevices :
          r_now = 0 /\ register_device(d, OwnKey(d), "n1", AuthWindowSecs, OwnKey(d))
    \/ \E tok \in r_tokens, to \in RelayDevices, p \in Payloads :
          MsgCount < MaxMsgs /\ relay_message(tok, to, p)
    \/ \E m \in r_pending : relay_message_queue(m)
    \/ \E s \in MainSockets, d \in RelayDevices, skew \in Skews, signer \in RelayKeys :
          authenticate(s, d, skew, signer)
    \/ \E s \in MainSockets : ws_register(s)
    \/ \E s \in MainSockets : ws_fetch_queued(s)
    \/ \E s \in MainSockets, ok \in BOOLEAN : ws_flush_one(s, ok)
    \/ \E s \in MainSockets : ws_delete_queued(s)
    \/ \E s \in MainSockets, ok \in BOOLEAN : ws_deliver(s, ok)
    \/ \E s \in MainSockets : ws_close(s)
    \/ \E s \in MainSockets, to \in RelayDevices, p \in Payloads :
          MsgCount < MaxMsgs /\ handle_client_message(s, to, p)
    \/ r_now < MaxTime /\ RelayTick(1)

(***************************************************************************)
(* Client: value sets                                                      *)
(***************************************************************************)
Mgrs == {"A", "B"}
Devices == {"A", "B", "C"}
Tasks == {"t1", "t2"}

MaxHandled == 2
MaxConns == 2
MaxCalls == 2
MaxEvents == 3
MaxBroadcasts == 1
MaxRotationsSeen == 1

KEY_SIZE == 32
NONCE_SIZE == 12
TAG_SIZE == 16
MAX_MESSAGES == 1000

(***************************************************************************)
(* Byte strings: what is kept of a byte string is its content and its      *)
(* length.                                                                 *)
(***************************************************************************)
Bytes(v, n) == [bytes |-> v, len |-> n]

\* Sha256::digest
Sha256(v) == Bytes(<<"sha256", v>>, 32)

\* &b[..n]
Prefix(b, n) == Bytes(<<"prefix", n, b.bytes>>, n)

\* hex::encode: two characters per byte
HexEncode(b) == [hex |-> b.bytes, len |-> 2 * b.len]

(***************************************************************************)
(* Identity and key agreement (rust_core/src/crypto)                       *)
(***************************************************************************)
NoKey == <<"nokey">>
NoSig == <<"nosig">>

VerifyingKey(d) == <<"ed25519pub", d>>

\* DeviceIdentity::device_id: SHA-256 of the verifying key, 32 bytes
DeviceId(d) == Sha256(VerifyingKey(d))

\* DeviceIdentity::sign, made by the identity of device d
sign(d, data) == <<"sig", d, data>>

\* DeviceIdentity::verify_from_public_key, against the identity of device d
verify_from_public_key(d, data, sig) == sig = <<"sig", d, data>>

\* Ephemeral X25519 key pairs: secret n has public key Pub(n).  The k-th
\* secret manager m generates for its link to d is <<m, d, k>>; EnvSecret
\* is held by the other end of a connection that is not one of Mgrs.
EnvSecret == <<"env", "env", 0>>
Pub(n) == <<"x25519pub", n>>

\* EphemeralKeyPair::derive_shared_secret: X25519 is symmetric in the two
\* secrets
derive_shared_secret(secret, peer_public) == {secret, peer_public[2]}

\* derive_key(.., DerivedKeyPurpose::SessionEncryption, None)
derive_key(shared) == <<"hkdf", "toss-session-encryption-v1", shared>>

\* The X25519 public key a device presents while pairing
PairingKey(d) == <<"x25519pairing", d>>

\* PairingSession::complete: the session key agreed while pairing
PairingSessionKey(m, d) == <<"hkdf", "pairing", {m, d}>>

\* crypto::encrypt(..).to_bytes(): nonce, ciphertext and tag
AeadBytes(key, b) == Bytes(<<"aead", key, b>>, b.len + NONCE_SIZE + TAG_SIZE)

\* decrypt of AeadBytes(k, b): b under the key k, an authentication failure
\* under any other
AeadFailure == Bytes(<<"aead-failure">>, 0)
AeadOpen(key, c) == IF c.bytes[2] = key THEN c.bytes[3] ELSE AeadFailure

(***************************************************************************)
(* Messages (rust_core/src/protocol/message.rs)                            *)
(***************************************************************************)
\* Message::ClipboardUpdate with plain-text content of the given size
ClipboardUpdateOf(size_bytes) ==
    [type |-> "ClipboardUpdate", new_public_key |-> NoKey, signature |-> NoSig,
     size_bytes |-> size_bytes]

ClipboardUpdate == ClipboardUpdateOf(1)

KeyRotation(new_public_key, signature) ==
    [type |-> "KeyRotation", new_public_key |-> new_public_key, signature |-> signature,
     size_bytes |-> 0]

(***************************************************************************)
(* Client state                                                            *)
(***************************************************************************)
VARIABLES
    n_peers,         \* NetworkManager.peers: per manager, device -> PeerConnection
    n_eph,           \* NetworkManager.ephemeral_keys: per manager, device -> PeerEphemeralKey
    n_events,        \* per manager: NetworkEvents sent on event_tx, in order
    n_evicted,       \* per manager and device: connections removed from peers by a failed send
    n_wire,          \* per manager and device: frames written to the connection
    n_fresh,         \* per manager and device: ephemeral secrets generated for the link
    n_handled,       \* KeyRotation messages handled so far
    n_gen,           \* per manager and device: connections established
    n_calls,         \* send_to_peer / broadcast calls made so far
    n_relay_url,     \* per manager: config.relay_url is Some
    n_relay_client,  \* per manager: relay_client is Some (connected and authenticated)
    n_relay_out,     \* per manager: payloads handed to relay.send_to_device
    n_task,          \* per task: the call in progress and its position
    st_devices       \* per manager: rows of the devices table of the local store

netVars == <<n_peers, n_eph, n_events, n_evicted, n_wire, n_fresh, n_handled, n_gen, n_calls,
             n_relay_url, n_relay_client, n_relay_out, n_task, st_devices>>

\* PeerConnection::new: no session key, fresh tracker.  gen names the
\* connection object; lock is the holder of the session_key mutex.
NoPeer == [session_key |-> NoKey, count |-> 0, aged |-> FALSE, gen |-> 0, lock |-> "free"]
NewConn(g) == [session_key |-> NoKey, count |-> 0, aged |-> FALSE, gen |-> g, lock |-> "free"]

NoEph == [present |-> FALSE, public_key |-> NoKey, peer_public_key |-> NoKey]

PeerEphemeralKey(public_key, peer_public_key) ==
    [present |-> TRUE, public_key |-> public_key, peer_public_key |-> peer_public_key]

IsPeer(m, d) == n_peers[m][d].gen # 0

\* EphemeralKeyPair::generate for the link of m to d
FreshSecret(m, d) == <<m, d, n_fresh[m][d] + 1>>

\* Connections established so far, over all managers and devices
RECURSIVE SumConns(_)
SumConns(links) ==
    IF links = {} THEN 0
    ELSE LET l == CHOOSE x \in links : TRUE IN
         n_gen[l[1]][l[2]] + SumConns(links \ {l})

TotalConns == SumConns(Mgrs \X Devices)

\* NetworkEvent
PeerConnected(d) == [event |-> "PeerConnected", device_id |-> d, message |-> ClipboardUpdate]
PeerDisconnected(d) == [event |-> "PeerDisconnected", device_id |-> d, message |-> ClipboardUpdate]
MessageReceived(d, msg) == [event |-> "MessageReceived", device_id |-> d, message |-> msg]

\* event_tx.send(..)
Emit(m, e) == n_events' = [n_events EXCEPT ![m] = Append(@, e)]

\* SessionTracker::should_rotate
should_rotate_above_max(conn) == conn.count > MAX_MESSAGES \/ conn.aged

should_rotate(conn) == conn.count >= MAX_MESSAGES \/ conn.aged

\* Results of calls
Ok == [ok |-> TRUE, err |-> "none"]
Err(e) == [ok |-> FALSE, err |-> e]

IdleTask ==
    [pc |-> "idle", m |-> "none", kind |-> "none", dev |-> "none",
     todo |-> <<>>, known |-> {}, relay |-> FALSE, success_count |-> 0,
     last_error |-> "none", accepted |-> {}, written |-> <<>>,
     imsg |-> ClipboardUpdate, ret |-> "none", ptr |-> 0, key |-> NoKey,
     err |-> "none", tried |-> {}, result |-> Ok, failures |-> <<>>,
     rot_key |-> NoKey, rot_pub |-> NoKey, rot_peer |-> NoKey,
     seen_peer |-> FALSE, seen_count |-> 0, seen_aged |-> FALSE, rot |-> FALSE,
     seen_key |-> NoKey, rot_failed |-> FALSE]

(***************************************************************************)
(* Local device store (rust_core/src/storage/device_storage.rs) and the    *)
(* pairing calls of the API that fill it                                   *)
(***************************************************************************)
\* secure_storage key of the installation of m
StorageKey(m) == <<"keystore", m>>

\* derive_key(identity.device_id(), StorageEncryption, "toss-session-key-v1")
SessionStorageKey(m) == <<"hkdf", "toss-session-key-v1", DeviceId(m).bytes>>

\* DeviceStorage::store_device: the session key column is encrypted with
\* encrypt_for_storage; INSERT OR REPLACE on id
store_device(rows, m, id, public_key, session_key) ==
    {r \in rows : r.id # id} \cup
        {[id |-> id, public_key |-> public_key,
          session_key |-> AeadBytes(StorageKey(m), session_key)]}

\* DeviceStorage::get_device: the rows with this id, the session key
\* column decrypted with decrypt_from_storage
get_device(m, id) ==
    {[id |-> r.id, public_key |-> r.public_key,
      session_key |-> AeadOpen(StorageKey(m), r.session_key)] :
        r \in {q \in st_devices[m] : q.id = id}}

\* complete_pairing_code: device id under which the peer is stored
PairedDeviceId(peer_key) == HexEncode(Prefix(Sha256(peer_key), 16))

complete_pairing_code(m, d) ==
    /\ d # m
    /\ st_devices' = [st_devices EXCEPT ![m] =
          store_device(@, m, PairedDeviceId(PairingKey(d)), PairingKey(d),
                       AeadBytes(SessionStorageKey(m),
                                 Bytes(PairingSessionKey(m, d), KEY_SIZE)))]
    /\ UNCHANGED <<n_peers, n_eph, n_events, n_evicted, n_wire, n_fresh, n_handled, n_gen,
                   n_calls, n_relay_url, n_relay_client, n_relay_out, n_task>>

\* m has paired with d: the store of m has the row written by
\* complete_pairing_code for d, session key included
IsPaired(m, d) == \E r \in st_devices[m] : r.id = PairedDeviceId(PairingKey(d))

\* The get_session_key callback built by start_network
get_session_key(m, d) ==
    LET found == get_device(m, HexEncode(DeviceId(d))) IN
    IF found # {} /\ (\A r \in found : r.session_key.len = KEY_SIZE)
    THEN (CHOOSE r \in found : TRUE).session_key.bytes
    ELSE NoKey

\* start_network passes None as get_public_key to new_with_callbacks
HasPublicKeyLookup == FALSE

NetInit ==
    /\ n_peers = [m \in Mgrs |-> [d \in Devices |-> NoPeer]]
    /\ n_eph = [m \in Mgrs |-> [d \in Devices |-> NoEph]]
    /\ n_events = [m \in Mgrs |-> <<>>]
    /\ n_evicted = [m \in Mgrs |-> [d \in Devices |-> 0]]
    /\ n_wire = [m \in Mgrs |-> [d \in Devices |-> <<>>]]
    /\ n_fresh = [m \in Mgrs |-> [d \in Devices |-> 0]]
    /\ n_handled = 0
    /\ n_gen = [m \in Mgrs |-> [d \in Devices |-> 0]]
    /\ n_calls = 0
    /\ n_relay_url = [m \in Mgrs |-> FALSE]
    /\ n_relay_client = [m \in Mgrs |-> FALSE]
    /\ n_relay_out = [m \in Mgrs |-> <<>>]
    /\ n_task = [t \in Tasks |-> IdleTask]
    /\ st_devices = [m \in Mgrs |-> {}]

(***************************************************************************)
(* NetworkManager (rust_core/src/network/mod.rs)                           *)
(***************************************************************************)
\* start: with a relay URL configured the relay client connects and
\* authenticates; relay_client is set only when that succeeded
start(m, relay_url, connected) ==
    /\ ~n_relay_url[m] /\ ~n_relay_client[m]
    /\ n_relay_url' = [n_relay_url EXCEPT ![m] = relay_url]
    /\ n_relay_client' = [n_relay_client EXCEPT ![m] = relay_url /\ connected]
    /\ UNCHANGED <<n_peers, n_eph, n_events, n_evicted, n_wire, n_fresh, n_handled, n_gen,
                   n_calls, n_relay_out, n_task, st_devices>>

\* connect: the transport hands back a connection; has_id says whether
\* its peer_device_id() is Some(d)
connect(m, d, has_id) ==
    /\ d # m
    /\ TotalConns < MaxConns
    /\ IF ~has_id
       THEN UNCHANGED <<n_peers, n_eph, n_events, n_fresh, n_gen>>
       ELSE /\ n_fresh' = [n_fresh EXCEPT ![m][d] = @ + 1]
            /\ n_eph' = [n_eph EXCEPT ![m][d] = PeerEphemeralKey(Pub(FreshSecret(m, d)), NoKey)]
            /\ n_gen' = [n_gen EXCEPT ![m][d] = @ + 1]
            /\ n_peers' = [n_peers EXCEPT ![m][d] = NewConn(n_gen[m][d] + 1)]
            /\ Emit(m, PeerConnected(d))
    /\ UNCHANGED <<n_evicted, n_wire, n_handled, n_calls, n_relay_url, n_relay_client,
                   n_relay_out, n_task, st_devices>>

\* handle_key_rotation
KeyRotationRejected(m, d, rot) ==
    /\ HasPublicKeyLookup
    /\ ~verify_from_public_key(d, rot.new_public_key, rot.signature)

handle_key_rotation(m, d, rot) ==
    IF KeyRotationRejected(m, d, rot)
    THEN UNCHANGED <<n_peers, n_eph, n_fresh, n_handled>>
    ELSE /\ n_handled < MaxHandled
         /\ n_peers[m][d].lock = "free"
         /\ n_handled' = n_handled + 1
         /\ n_fresh' = [n_fresh EXCEPT ![m][d] = @ + 1]
         /\ LET new_session_key ==
                    derive_key(derive_shared_secret(FreshSecret(m, d), rot.new_public_key)) IN
            n_peers' = IF IsPeer(m, d)
                       THEN [n_peers EXCEPT ![m][d].session_key = new_session_key,
                                            ![m][d].count = 0,
                                            ![m][d].aged = FALSE]
                       ELSE n_peers
         /\ n_eph' = [n_eph EXCEPT ![m][d] =
                         PeerEphemeralKey(Pub(FreshSecret(m, d)), rot.new_public_key)]

\* process_message
process_message(m, d, msg) ==
    /\ d # m
    /\ IF msg.type = "KeyRotation"
       THEN /\ handle_key_rotation(m, d, msg)
            /\ UNCHANGED n_events
       ELSE /\ Len(n_events[m]) < MaxEvents
            /\ Emit(m, MessageReceived(d, msg))
            /\ UNCHANGED <<n_peers, n_eph, n_fresh, n_handled>>
    /\ UNCHANGED <<n_evicted, n_wire, n_gen, n_calls, n_relay_url, n_relay_client,
                   n_relay_out, n_task, st_devices>>

\* Messages that can be handed to process_message of m as coming from d:
\* what d wrote to its connection to m, and a KeyRotation made by the holder of EnvSecret and signed by any identity
Incoming(m, d) ==
    (IF d \in Mgrs THEN {n_wire[d][m][i].msg : i \in DOMAIN n_wire[d][m]} ELSE {})
    \cup {KeyRotation(Pub(EnvSecret), sign(s, Pub(EnvSecret))) : s \in {d, "C"}}

\* 24 hours pass on a connection's session tracker
SessionAges(m, d) ==
    /\ IsPeer(m, d)
    /\ ~n_peers[m][d].aged
    /\ n_peers' = [n_peers EXCEPT ![m][d].aged = TRUE]
    /\ UNCHANGED <<n_eph, n_events, n_evicted, n_wire, n_fresh, n_handled, n_gen, n_calls,
                   n_relay_url, n_relay_client, n_relay_out, n_task, st_devices>>

(***************************************************************************)
(* Sending: send_to_peer_internal, rotate_session_key, send_to_peer and    *)
(* broadcast, one action per stretch of code between two suspension points *)
(***************************************************************************)
PeerNotFound == Err("Peer not found")
NotAuthenticated == Err("Not authenticated")
TransportError == Err("Transport error")
ConnectionFailed(text) == [ok |-> FALSE, err |-> text]

\* n consecutive frames of the same kind under the same key on the same
\* connection
FrameRun(key, msg, gen, n) == [key |-> key, msg |-> msg, gen |-> gen, n |-> n]

Frame(key, msg, gen) == FrameRun(key, msg, gen, 1)

SetTask(t, tk) == n_task' = [n_task EXCEPT ![t] = tk]

\* send_to_peer is called
call_send_to_peer(t, m, d) ==
    /\ n_task[t].pc = "idle"
    /\ n_calls < MaxCalls
    /\ d # m
    /\ n_calls' = n_calls + 1
    /\ SetTask(t, [IdleTask EXCEPT !.pc = "sp_start", !.m = m, !.kind = "send", !.dev = d])
    /\ UNCHANGED <<n_peers, n_eph, n_events, n_evicted, n_wire, n_fresh, n_handled, n_gen,
                   n_relay_url, n_relay_client, n_relay_out, st_devices>>

\* broadcast: the decision at the end
broadcast_result_never_fails(success_count, last_error) == Ok

broadcast_result(success_count, last_error) ==
    IF success_count > 0 THEN Ok
    ELSE IF last_error # "none" THEN ConnectionFailed(last_error)
    ELSE Ok

\* broadcast is called: snapshot of the peer ids and of relay_client
call_broadcast(t, m) ==
    /\ n_task[t].pc = "idle"
    /\ n_calls < MaxCalls
    /\ n_calls' = n_calls + 1
    /\ LET ids == {d \in Devices : IsPeer(m, d)} IN
       IF ids = {}
       THEN SetTask(t, [IdleTask EXCEPT !.pc = "bc_done", !.m = m, !.kind = "bcast"])
       ELSE \E order \in {s \in [1..Cardinality(ids) -> ids] :
                                \A d \in ids : \E i \in DOMAIN s : s[i] = d} :
                 SetTask(t, [IdleTask EXCEPT !.pc = "bc_next", !.m = m, !.kind = "bcast",
                                             !.todo = order, !.known = ids,
                                             !.relay = n_relay_client[m]])
    /\ UNCHANGED <<n_peers, n_eph, n_events, n_evicted, n_wire, n_fresh, n_handled, n_gen,
                   n_relay_url, n_relay_client, n_relay_out, st_devices>>

\* broadcast: head of the loop over the peer ids, and the return
bc_next(t) ==
    /\ n_task[t].pc = "bc_next"
    /\ IF n_task[t].todo = <<>>
       THEN SetTask(t, [n_task[t] EXCEPT
                !.pc = "bc_done",
                !.result = broadcast_result(n_task[t].success_count,
                                            n_task[t].last_error)])
       ELSE SetTask(t, [n_task[t] EXCEPT !.pc = "sp_start",
                                         !.dev = Head(n_task[t].todo),
                                         !.todo = Tail(n_task[t].todo),
                                         !.tried = {}, !.err = "none"])
    /\ UNCHANGED <<n_peers, n_eph, n_events, n_evicted, n_wire, n_fresh, n_handled, n_gen,
                   n_calls, n_relay_url, n_relay_client, n_relay_out, st_devices>>

\* send_to_peer up to the call of send_to_peer_internal: the rotation check
\* and, when rotation is due, rotate_session_key up to its send
sp_start(t) ==
    LET conn == n_peers[n_task[t].m][n_task[t].dev]
        peer_public_key == n_eph[n_task[t].m][n_task[t].dev].peer_public_key
        needs_rotation == IsPeer(n_task[t].m, n_task[t].dev) /\ should_rotate(conn)
        \* what the call found on the connection, kept with the call
        tk == [n_task[t] EXCEPT !.seen_peer = IsPeer(n_task[t].m, n_task[t].dev),
                                !.seen_count = conn.count,
                                !.seen_aged = conn.aged,
                                !.seen_key = conn.session_key,
                                !.rot = needs_rotation]
    IN
    /\ n_task[t].pc = "sp_start"
    /\ IF needs_rotation
       THEN /\ n_fresh' = [n_fresh EXCEPT ![tk.m][tk.dev] = @ + 1]
            /\ IF peer_public_key = NoKey
               THEN SetTask(t, [tk EXCEPT !.pc = "sp_send", !.rot_failed = TRUE])
               ELSE SetTask(t, [tk EXCEPT
                        !.pc = "int_lock", !.ret = "rot", !.ptr = conn.gen,
                        !.imsg = KeyRotation(Pub(FreshSecret(tk.m, tk.dev)),
                                             sign(tk.m, Pub(FreshSecret(tk.m, tk.dev)))),
                        !.rot_pub = Pub(FreshSecret(tk.m, tk.dev)),
                        !.rot_peer = peer_public_key,
                        !.rot_key = derive_key(derive_shared_secret(FreshSecret(tk.m, tk.dev),
                                                                    peer_public_key))])
       ELSE /\ SetTask(t, [tk EXCEPT !.pc = "sp_send"])
            /\ UNCHANGED n_fresh
    /\ UNCHANGED <<n_peers, n_eph, n_events, n_evicted, n_wire, n_handled, n_gen, n_calls,
                   n_relay_url, n_relay_client, n_relay_out, st_devices>>

\* send_to_peer_internal for the caller's message, up to the wait for the
\* session-key lock inside send_message: the connection pointer is taken
\* and the message count incremented
sp_send(t) ==
    LET tk == n_task[t] IN
    /\ tk.pc = "sp_send"
    /\ IF IsPeer(tk.m, tk.dev)
       THEN /\ n_peers' = [n_peers EXCEPT ![tk.m][tk.dev].count = @ + 1]
            /\ SetTask(t, [tk EXCEPT !.pc = "int_lock", !.ret = "main",
                                     !.ptr = n_peers[tk.m][tk.dev].gen,
                                     !.imsg = ClipboardUpdate,
                                     !.tried = @ \cup {"direct"}])
       ELSE /\ SetTask(t, [tk EXCEPT !.pc = "sp_fallback", !.err = PeerNotFound.err,
                                     !.tried = @ \cup {"direct"}])
            /\ UNCHANGED n_peers
    /\ UNCHANGED <<n_eph, n_events, n_evicted, n_wire, n_fresh, n_handled, n_gen, n_calls,
                   n_relay_url, n_relay_client, n_relay_out, st_devices>>

\* send_to_peer_internal, Err arm: remove the connection if the map still
\* has one for the device, and emit PeerDisconnected
remove_dead_connection_always_emits(m, d) ==
    /\ n_peers' = [n_peers EXCEPT ![m][d] = NoPeer]
    /\ n_evicted' = [n_evicted EXCEPT ![m][d] = IF IsPeer(m, d) THEN @ + 1 ELSE @]
    /\ Emit(m, PeerDisconnected(d))

remove_dead_connection(m, d) ==
    IF IsPeer(m, d)
    THEN /\ n_peers' = [n_peers EXCEPT ![m][d] = NoPeer]
         /\ n_evicted' = [n_evicted EXCEPT ![m][d] = @ + 1]
         /\ Emit(m, PeerDisconnected(d))
    ELSE UNCHANGED <<n_peers, n_evicted, n_events>>

\* Where a call continues once send_to_peer_internal has returned
AfterInternalOk(tk) ==
    IF tk.ret = "rot" THEN [tk EXCEPT !.pc = "rot_install"]
    ELSE [tk EXCEPT !.pc = "sp_done", !.written = Append(@, tk.dev)]

AfterInternalErr(tk, e) ==
    IF tk.ret = "rot" THEN [tk EXCEPT !.pc = "sp_send", !.rot_failed = TRUE]
    ELSE [tk EXCEPT !.pc = "sp_fallback", !.err = e.err]

\* The connection the task points to is still the one in the map
PtrValid(tk) == n_peers[tk.m][tk.dev].gen = tk.ptr

\* send_message from the acquisition of the session-key lock up to the
\* write.  Through a pointer to a connection that is no longer in the map
\* the call may report success or failure.
int_lock(t, stale_ok) ==
    LET tk == n_task[t]
        conn == n_peers[tk.m][tk.dev]
    IN
    /\ tk.pc = "int_lock"
    /\ IF PtrValid(tk)
       THEN /\ conn.lock = "free"
            /\ IF conn.session_key = NoKey
               THEN /\ remove_dead_connection(tk.m, tk.dev)
                    /\ SetTask(t, AfterInternalErr(tk, NotAuthenticated))
               ELSE /\ n_peers' = [n_peers EXCEPT ![tk.m][tk.dev].lock = t]
                    /\ SetTask(t, [tk EXCEPT !.pc = "int_write", !.key = conn.session_key])
                    /\ UNCHANGED <<n_evicted, n_events>>
       ELSE IF stale_ok
            THEN /\ SetTask(t, AfterInternalOk(tk))
                 /\ UNCHANGED <<n_peers, n_evicted, n_events>>
            ELSE /\ remove_dead_connection(tk.m, tk.dev)
                 /\ SetTask(t, AfterInternalErr(tk, TransportError))
    /\ UNCHANGED <<n_eph, n_wire, n_fresh, n_handled, n_gen, n_calls,
                   n_relay_url, n_relay_client, n_relay_out, st_devices>>

\* send_raw returns: the frame was written, or the write failed
int_write(t, ok) ==
    LET tk == n_task[t] IN
    /\ tk.pc = "int_write"
    /\ IF ok
       THEN /\ n_wire' = [n_wire EXCEPT ![tk.m][tk.dev] =
                            Append(@, Frame(tk.key, tk.imsg, tk.ptr))]
            /\ n_peers' = IF PtrValid(tk)
                          THEN [n_peers EXCEPT ![tk.m][tk.dev].lock = "free"]
                          ELSE n_peers
            /\ SetTask(t, AfterInternalOk(tk))
            /\ UNCHANGED <<n_evicted, n_events>>
       ELSE /\ remove_dead_connection(tk.m, tk.dev)
            /\ SetTask(t, AfterInternalErr(tk, TransportError))
            /\ UNCHANGED n_wire
    /\ UNCHANGED <<n_eph, n_fresh, n_handled, n_gen, n_calls,
                   n_relay_url, n_relay_client, n_relay_out, st_devices>>

\* rotate_session_key after its send succeeded: install the new key on the
\* connection now in the map, reset its tracker, record the ephemeral keys
rot_install(t) ==
    LET tk == n_task[t] IN
    /\ tk.pc = "rot_install"
    /\ n_peers[tk.m][tk.dev].lock = "free"
    /\ n_peers' = IF IsPeer(tk.m, tk.dev)
                  THEN [n_peers EXCEPT ![tk.m][tk.dev].session_key = tk.rot_key,
                                       ![tk.m][tk.dev].count = 0,
                                       ![tk.m][tk.dev].aged = FALSE]
                  ELSE n_peers
    /\ n_eph' = [n_eph EXCEPT ![tk.m][tk.dev] = PeerEphemeralKey(tk.rot_pub, tk.rot_peer)]
    /\ SetTask(t, [tk EXCEPT !.pc = "sp_send"])
    /\ UNCHANGED <<n_events, n_evicted, n_wire, n_fresh, n_handled, n_gen, n_calls,
                   n_relay_url, n_relay_client, n_relay_out, st_devices>>

\* send_to_peer, Err arm: the WebSocket fallback, tried only when a relay
\* URL is configured, sending only when the callback yields a session key
sp_fallback(t, ws_connected, ws_sent) ==
    LET tk == n_task[t]
        sent == /\ n_relay_url[tk.m]
                /\ ws_connected
                /\ get_session_key(tk.m, tk.dev) # NoKey
                /\ ws_sent
    IN
    /\ tk.pc = "sp_fallback"
    /\ SetTask(t, [tk EXCEPT !.pc = IF sent THEN "sp_done" ELSE "sp_failed",
                             !.tried = IF n_relay_url[tk.m] THEN @ \cup {"ws"} ELSE @,
                             !.written = IF sent THEN Append(@, tk.dev) ELSE @])
    /\ UNCHANGED <<n_peers, n_eph, n_events, n_evicted, n_wire, n_fresh, n_handled, n_gen, n_calls,
                   n_relay_url, n_relay_client, n_relay_out, st_devices>>

\* send_to_peer returns, to its caller or into the loop of broadcast
sp_return(t) ==
    LET tk == n_task[t]
        result == IF tk.pc = "sp_done" THEN Ok ELSE Err(tk.err)
    IN
    /\ tk.pc \in {"sp_done", "sp_failed"}
    /\ IF tk.kind = "send"
       THEN SetTask(t, IdleTask)
       ELSE IF result.ok
            THEN SetTask(t, [tk EXCEPT !.pc = "bc_next",
                                      !.success_count = @ + 1,
                                      !.accepted = @ \cup {tk.dev}])
            ELSE SetTask(t, [tk EXCEPT !.pc = IF tk.relay THEN "bc_relay" ELSE "bc_next",
                                      !.last_error = result.err,
                                      !.failures = Append(@, result.err)])
    /\ UNCHANGED <<n_peers, n_eph, n_events, n_evicted, n_wire, n_fresh, n_handled, n_gen, n_calls,
                   n_relay_url, n_relay_client, n_relay_out, st_devices>>

\* broadcast: what is handed to the relay for a device: marker 0x01 and the
\* message encrypted under the session key the callback yields, or marker
\* 0x00 and the serialized message
relay_payload(m, d, msg) ==
    LET session_key == get_session_key(m, d) IN
    IF session_key # NoKey
    THEN [to |-> d, marker |-> 1, key |-> session_key, aad |-> d, msg |-> msg,
          paired |-> IsPaired(m, d)]
    ELSE [to |-> d, marker |-> 0, key |-> NoKey, aad |-> "none", msg |-> msg,
          paired |-> IsPaired(m, d)]

\* broadcast, Err arm with a relay client: relay.send_to_device
bc_relay(t, ok) ==
    LET tk == n_task[t] IN
    /\ tk.pc = "bc_relay"
    /\ IF ok
       THEN /\ n_relay_out' = [n_relay_out EXCEPT ![tk.m] =
                                 Append(@, relay_payload(tk.m, tk.dev, ClipboardUpdate))]
            /\ SetTask(t, [tk EXCEPT !.pc = "bc_next",
                                     !.success_count = @ + 1,
                                     !.accepted = @ \cup {tk.dev},
                                     !.written = Append(@, tk.dev)])
       ELSE /\ SetTask(t, [tk EXCEPT !.pc = "bc_next"])
            /\ UNCHANGED n_relay_out
    /\ UNCHANGED <<n_peers, n_eph, n_events, n_evicted, n_wire, n_fresh, n_handled, n_gen, n_calls,
                   n_relay_url, n_relay_client, st_devices>>

\* broadcast returns
bc_return(t) ==
    /\ n_task[t].pc = "bc_done"
    /\ SetTask(t, IdleTask)
    /\ UNCHANGED <<n_peers, n_eph, n_events, n_evicted, n_wire, n_fresh, n_handled, n_gen, n_calls,
                   n_relay_url, n_relay_client, n_relay_out, st_devices>>

\* Steps of the calls in progress that every scenario has
SendSteps(tasks) ==
    \/ \E t \in tasks : sp_start(t)
    \/ \E t \in tasks : sp_send(t)
    \/ \E t \in tasks, stale_ok \in BOOLEAN : int_lock(t, stale_ok)
    \/ \E t \in tasks, ok \in BOOLEAN : int_write(t, ok)
    \/ \E t \in tasks, ws_connected \in BOOLEAN, ws_sent \in BOOLEAN :
          sp_fallback(t, ws_connected, ws_sent)
    \/ \E t \in tasks : sp_return(t)

\* Scenario of SpecNet: the application of A sends; A connects to B and C
\* and has paired with B
NetLinks == {<<"A", "B">>, <<"A", "C">>}

NetNext ==
    \/ \E connected \in BOOLEAN : start("A", TRUE, connected)
    \/ \E l \in NetLinks, has_id \in BOOLEAN : connect(l[1], l[2], has_id)
    \/ \E l \in NetLinks : \E msg \in Incoming(l[1], l[2]) : process_message(l[1], l[2], msg)
    \/ complete_pairing_code("A", "B")
    \/ \E l \in NetLinks : call_send_to_peer("t1", l[1], l[2])
    \/ call_broadcast("t1", "A")
    \/ bc_next("t1")
    \/ \E ok \in BOOLEAN : bc_relay("t1", ok)
    \/ bc_return("t1")
    \/ SendSteps({"t1"})

\* Scenario of SpecBroadcast: the application of A broadcasts to the peers
\* it is connected to
BroadcastNext ==
    \/ \E connected \in BOOLEAN : start("A", TRUE, connected)
    \/ \E l \in NetLinks, has_id \in BOOLEAN : connect(l[1], l[2], has_id)
    \/ \E l \in NetLinks : \E msg \in Incoming(l[1], l[2]) :
          n_handled < MaxRotationsSeen /\ process_message(l[1], l[2], msg)
    \/ n_calls < MaxBroadcasts /\ call_broadcast("t1", "A")
    \/ bc_next("t1")
    \/ \E ok \in BOOLEAN : bc_relay("t1", ok)
    \/ bc_return("t1")
    \/ SendSteps({"t1"})

\* Scenario of SpecSend: two calls of send_to_peer of A to B in progress
\* at the same time
SendLinks == {<<"A", "B">>}

SendNext ==
    \/ \E l \in SendLinks, has_id \in BOOLEAN : connect(l[1], l[2], has_id)
    \/ \E l \in SendLinks : \E msg \in Incoming(l[1], l[2]) : process_message(l[1], l[2], msg)
    \/ \E t \in Tasks, l \in SendLinks : call_send_to_peer(t, l[1], l[2])
    \/ SendSteps(Tasks)

\* MAX_MESSAGES - 1 calls of send_to_peer(d, ClipboardUpdate) one after the
\* other on a fresh session, each finding the rotation not due and each
\* written: what they leave behind
send_many(m, d) ==
    /\ \A t \in Tasks : n_task[t].pc = "idle"
    /\ IsPeer(m, d)
    /\ n_peers[m][d].session_key # NoKey
    /\ n_peers[m][d].lock = "free"
    /\ n_peers[m][d].count = 0 /\ ~n_peers[m][d].aged
    /\ n_peers' = [n_peers EXCEPT ![m][d].count = MAX_MESSAGES - 1]
    /\ n_wire' = [n_wire EXCEPT ![m][d] =
                     Append(@, FrameRun(n_peers[m][d].session_key, ClipboardUpdate,
                                        n_peers[m][d].gen, MAX_MESSAGES - 1))]
    /\ UNCHANGED <<n_eph, n_events, n_evicted, n_fresh, n_handled, n_gen, n_calls,
                   n_relay_url, n_relay_client, n_relay_out, n_task, st_devices>>

\* Scenario of SpecCount: A sends to B until the message count of the
\* session makes the rotation due
CountNext ==
    \/ \E has_id \in BOOLEAN : connect("A", "B", has_id)
    \/ \E msg \in Incoming("A", "B") : process_message("A", "B", msg)
    \/ SessionAges("A", "B")
    \/ send_many("A", "B")
    \/ call_send_to_peer("t1", "A", "B")
    \/ rot_install("t1")
    \/ SendSteps({"t1"})

\* Scenario of SpecRotation: A and B connect to each other, sessions age,
\* the application of A sends to B
RotLinks == {<<"A", "B">>, <<"B", "A">>}

RotNext ==
    \/ \E l \in RotLinks, has_id \in BOOLEAN : connect(l[1], l[2], has_id)
    \/ \E l \in RotLinks : \E msg \in Incoming(l[1], l[2]) : process_message(l[1], l[2], msg)
    \/ \E l \in RotLinks : SessionAges(l[1], l[2])
    \/ call_send_to_peer("t1", "A", "B")
    \/ rot_install("t1")
    \/ SendSteps({"t1"})

(***************************************************************************)
(* The API of the local installation (rust_core/src/api/mod.rs): the       *)
(* TOSS_INSTANCE of device Local, its settings, its event receiver and     *)
(* poll_event                                                              *)
(***************************************************************************)
Local == "A"

\* TossSettings::default().max_file_size_mb
DefaultMaxFileSizeMb == 50

\* Content sizes a received ClipboardUpdate can have: within the default
\* limit, and one byte above it
ContentSizes == {1, DefaultMaxFileSizeMb * 1024 * 1024 + 1}

VARIABLES
    a_receiver,   \* TossCore.event_receiver: present, and the next event it yields
    a_settings,   \* TossCore.settings: sync_text, history_enabled, max_file_size_mb
    a_polled,     \* events poll_event took from the receiver, with what it returned
    a_history,    \* sizes of the contents poll_event saved to the history
    a_stuck       \* a call of the API waits for a lock its own thread holds

apiVars == <<a_receiver, a_settings, a_polled, a_history, a_stuck>>

TossSettings(sync_text, history_enabled) ==
    [sync_text |-> sync_text, history_enabled |-> history_enabled,
     max_file_size_mb |-> DefaultMaxFileSizeMb]

\* TossEvent, and the None of poll_event
NoEvent == [kind |-> "None", device_id |-> "none", size_bytes |-> 0]
DeviceConnected(d) == [kind |-> "DeviceConnected", device_id |-> d, size_bytes |-> 0]
DeviceDisconnected(d) == [kind |-> "DeviceDisconnected", device_id |-> d, size_bytes |-> 0]
ClipboardReceived(d, msg) ==
    [kind |-> "ClipboardReceived", device_id |-> d, size_bytes |-> msg.size_bytes]
NeverReturns == [kind |-> "blocked", device_id |-> "none", size_bytes |-> 0]

ApiInit ==
    /\ a_receiver = [on |-> FALSE, next |-> 1]
    /\ a_settings = TossSettings(TRUE, TRUE)
    /\ a_polled = <<>>
    /\ a_history = <<>>
    /\ a_stuck = FALSE

\* update_settings
update_settings(settings) ==
    /\ ~a_stuck
    /\ a_settings # settings
    /\ a_settings' = settings
    /\ UNCHANGED <<a_receiver, a_polled, a_history, a_stuck>>
    /\ UNCHANGED netVars

\* start_network: the manager is built and started, then the receiver is
\* subscribed
start_network(relay_url, connected) ==
    /\ ~a_stuck
    /\ ~a_receiver.on
    /\ start(Local, relay_url, connected)
    /\ a_receiver' = [on |-> TRUE, next |-> Len(n_events[Local]) + 1]
    /\ UNCHANGED <<a_settings, a_polled, a_history, a_stuck>>

\* complete_pairing_code through the API
api_complete_pairing_code(d) ==
    /\ ~a_stuck
    /\ complete_pairing_code(Local, d)
    /\ UNCHANGED apiVars

\* What a device hands to the relay for Local: marker 0x00 and the
\* serialized message, or marker 0x01 and the message encrypted under the
\* session key of the pairing
RelayPayloads(from) ==
    {[to |-> Local, marker |-> 0, key |-> NoKey, aad |-> "none", msg |-> ClipboardUpdateOf(sz),
      paired |-> FALSE] : sz \in ContentSizes}
    \cup {[to |-> Local, marker |-> 1, key |-> PairingSessionKey(from, Local), aad |-> from,
           msg |-> ClipboardUpdateOf(sz), paired |-> TRUE] : sz \in ContentSizes}

\* relay_receive_loop, one message from the relay: an encrypted payload is
\* dropped unless the callback yields the key it was encrypted under
relay_receive(m, from, payload) ==
    /\ n_relay_client[m]
    /\ Len(n_events[m]) < MaxEvents
    /\ IF payload.marker = 1 /\ get_session_key(m, from) # payload.key
       THEN UNCHANGED n_events
       ELSE Emit(m, MessageReceived(from, payload.msg))
    /\ UNCHANGED <<n_peers, n_eph, n_evicted, n_wire, n_fresh, n_handled, n_gen, n_calls,
                   n_relay_url, n_relay_client, n_relay_out, n_task, st_devices>>

\* poll_event: the checks on the sender of a received message
is_paired_always(from_device_id) == TRUE

is_paired(from_device_id) == get_device(Local, HexEncode(DeviceId(from_device_id))) # {}

is_self(from_device_id) == DeviceId(from_device_id) = DeviceId(Local)

\* poll_event: the limit on the content size
max_size == a_settings.max_file_size_mb * 1024 * 1024

\* poll_event, arm MessageReceived: what it returns
received_result(e) ==
    IF ~is_paired(e.device_id) THEN NoEvent
    ELSE IF is_self(e.device_id) THEN NoEvent
    ELSE IF e.message.type # "ClipboardUpdate" THEN NoEvent
    ELSE IF e.message.size_bytes > max_size THEN NoEvent
    \* the write lock of TOSS_INSTANCE is requested while the read guard
    \* taken at the start of poll_event is still held
    ELSE IF a_settings.sync_text THEN NeverReturns
    ELSE ClipboardReceived(e.device_id, e.message)

\* poll_event with an event in the receiver
poll_event ==
    /\ ~a_stuck
    /\ a_receiver.on
    /\ a_receiver.next <= Len(n_events[Local])
    /\ LET e == n_events[Local][a_receiver.next]
           result == IF e.event = "PeerConnected" THEN DeviceConnected(e.device_id)
                     ELSE IF e.event = "PeerDisconnected" THEN DeviceDisconnected(e.device_id)
                     ELSE received_result(e)
       IN
       /\ a_receiver' = [a_receiver EXCEPT !.next = @ + 1]
       /\ a_polled' = Append(a_polled, [event |-> e, result |-> result,
                                        paired |-> IsPaired(Local, e.device_id)])
       /\ a_stuck' = (result = NeverReturns)
       /\ a_history' = IF result.kind = "ClipboardReceived" /\ a_settings.history_enabled
                       THEN Append(a_history, result.size_bytes)
                       ELSE a_history
       /\ UNCHANGED a_settings
    /\ UNCHANGED netVars

\* start_event_listener: with the network started, the write lock of
\* TOSS_INSTANCE is requested while the read guard taken in its first
\* line is still held; the lock is not reentrant
start_event_listener ==
    /\ ~a_stuck
    /\ a_stuck' = a_receiver.on
    /\ UNCHANGED <<a_receiver, a_settings, a_polled, a_history>>
    /\ UNCHANGED netVars

\* Scenario of SpecApi: the application pairs with B, starts the network
\* and polls; messages reach the manager from B, from the unknown device C
\* and under the id of the local device
ApiNext ==
    \/ \E sync_text \in BOOLEAN, history_enabled \in BOOLEAN :
          update_settings(TossSettings(sync_text, history_enabled))
    \/ \E relay_url \in BOOLEAN, connected \in BOOLEAN : start_network(relay_url, connected)
    \/ api_complete_pairing_code("B")
    \/ \E d \in Devices \ {Local}, sz \in ContentSizes :
          process_message(Local, d, ClipboardUpdateOf(sz)) /\ UNCHANGED apiVars
    \/ \E from \in Devices : \E payload \in RelayPayloads(from) :
          relay_receive(Local, from, payload) /\ UNCHANGED apiVars
    \/ poll_event
    \/ start_event_listener

(***************************************************************************)
(* Client API: send_clipboard (rust_core/src/api/mod.rs)                   *)
(***************************************************************************)
RateLimitMs == 100

\* the steps, in milliseconds, by which the model advances the clock
ClockSteps == {50}

\* what the system clipboard holds: nothing, a text within the size limit,
\* a text above it
NoContent == [type |-> "none", size_bytes |-> 0]
TextContent(size_bytes) == [type |-> "PlainText", size_bytes |-> size_bytes]
ClipboardContents == {NoContent} \cup {TextContent(sz) : sz \in ContentSizes}

VARIABLES
    c_now,             \* monotonic clock of the client, milliseconds
    c_last_sync_time,  \* TossCore.last_sync_time
    c_sends            \* the calls of send_clipboard: when, and how they ended

clipVars == <<c_now, c_last_sync_time, c_sends>>

\* init_toss: last_sync_time is Instant::now()
ClipInit ==
    /\ c_now = 0
    /\ c_last_sync_time = 0
    /\ c_sends = <<>>

\* last_sync.elapsed()
elapsed == c_now - c_last_sync_time

\* the outcome of send_clipboard before the broadcast
SendOutcome(content) ==
    IF elapsed < RateLimitMs THEN "Rate limit"
    ELSE IF content = NoContent THEN "Clipboard is empty"
    ELSE IF ~a_settings.sync_text THEN "Text sync disabled"
    ELSE IF content.size_bytes > a_settings.max_file_size_mb * 1024 * 1024
         THEN "Content too large"
    ELSE "Ok"

\* core.network.is_some()
has_network == a_receiver.on

SendRecord(content, broadcast) ==
    [at |-> c_now, result |-> SendOutcome(content), broadcast |-> broadcast]

\* send_clipboard up to the call of NetworkManager::broadcast; the
\* broadcast itself runs as task t of the manager
send_clipboard(t, content) ==
    /\ ~a_stuck
    /\ IF SendOutcome(content) # "Ok"
       THEN /\ c_sends' = Append(c_sends, SendRecord(content, FALSE))
            /\ UNCHANGED <<a_history, netVars>>
       ELSE /\ a_history' = IF a_settings.history_enabled
                             THEN Append(a_history, content.size_bytes)
                             ELSE a_history
            /\ IF has_network
               THEN /\ call_broadcast(t, Local)
                    /\ c_sends' = Append(c_sends, SendRecord(content, TRUE))
               ELSE /\ c_sends' = Append(c_sends, SendRecord(content, FALSE))
                    /\ UNCHANGED netVars
    /\ UNCHANGED <<c_now, c_last_sync_time, a_receiver, a_settings, a_polled, a_stuck>>

\* the clock of the client advances
ClipTick(dt) ==
    /\ c_now' = c_now + dt
    /\ UNCHANGED <<c_last_sync_time, c_sends, apiVars, netVars>>

\* Scenario of SpecClip: the application starts the network, connects to
\* B and sends the clipboard while the clock advances
ClipNext ==
    \/ \E relay_url \in BOOLEAN, connected \in BOOLEAN :
          start_network(relay_url, connected) /\ UNCHANGED clipVars
    \/ \E has_id \in BOOLEAN : connect(Local, "B", has_id) /\ UNCHANGED <<apiVars, clipVars>>
    \/ \E content \in ClipboardContents :
          Len(c_sends) < MaxSends /\ send_clipboard("t1", content)
    \/ bc_next("t1") /\ UNCHANGED <<apiVars, clipVars>>
    \/ SendSteps({"t1"}) /\ UNCHANGED <<apiVars, clipVars>>
    \/ \E ok \in BOOLEAN : bc_relay("t1", ok) /\ UNCHANGED <<apiVars, clipVars>>
    \/ bc_return("t1") /\ UNCHANGED <<apiVars, clipVars>>
    \/ \E dt \in ClockSteps : c_now + dt <= MaxClockMs /\ ClipTick(dt)

(***************************************************************************)
(* Wire frames (rust_core/src/protocol, rust_core/src/crypto/symmetric.rs) *)
(***************************************************************************)
PROTOCOL_VERSION == 1
HEADER_SIZE == 24
MAX_MESSAGE_SIZE == 52428800  \* 50 * 1024 * 1024

\* header_to_bytes: the bytes of the header that are handed to the cipher
\* as additional authenticated data
AadSize == 20

\* the builds of the protocol a peer can run: an older one, this one, a
\* later one
PeerVersions == {0, 1, 2}

\* MessageType as u8
MessageTypeCodes == {1, 2, 16, 17, 18, 32, 48, 255}

\* the message types the peers send here: Ping, ClipboardUpdate
SentTypes == {1, 16}

\* a u64 is held as four 16-bit limbs, least significant first
MessageIds == {<<513, 0, 0, 65535>>}
Timestamps == {<<1000, 2, 0, 0>>}

FrameKeys == {"k1", "k2"}

\* the session key the receiver holds for the connection
ReceiverKey == "k1"

\* the callback get_session_key yields no key for the device
NoSessionKey == "nokey"

FramePaths == {"direct", "websocket"}

\* one bit of a byte inverted
FlipBit(b, k) == IF (b \div (2 ^ k)) % 2 = 1 THEN b - 2 ^ k ELSE b + 2 ^ k

u16_to_le_bytes(v) == <<v % 256, v \div 256>>
u16_from_le_bytes(b) == b[1] + 256 * b[2]

u32_to_le_bytes(v) ==
    <<v % 256, (v \div 256) % 256, (v \div 65536) % 256, v \div 16777216>>
u32_from_le_bytes(b) == b[1] + 256 * b[2] + 65536 * b[3] + 16777216 * b[4]

u64_to_le_bytes(v) ==
    u16_to_le_bytes(v[1]) \o u16_to_le_bytes(v[2])
        \o u16_to_le_bytes(v[3]) \o u16_to_le_bytes(v[4])
u64_from_le_bytes(b) ==
    <<u16_from_le_bytes(SubSeq(b, 1, 2)), u16_from_le_bytes(SubSeq(b, 3, 4)),
      u16_from_le_bytes(SubSeq(b, 5, 6)), u16_from_le_bytes(SubSeq(b, 7, 8))>>

FrameErr(e) == [ok |-> FALSE, err |-> e]
FrameOk(v) == [ok |-> TRUE, val |-> v]

\* MessageType::try_from(u8)
message_type_try_from(value) ==
    IF value \in MessageTypeCodes THEN FrameOk(value) ELSE FrameErr("UnknownMessageType")

MessageHeader(version, message_type, message_id, timestamp) ==
    [version |-> version, message_type |-> message_type,
     message_id |-> message_id, timestamp |-> timestamp]

\* Message::serialize: the bincode of the message, in the layout of the
\* build that wrote it
Serialized(message_type, layout) == [variant |-> message_type, layout |-> layout, len |-> 4]

\* the layouts a build of the given version can write: this build writes
\* the layout this build reads; what another build writes may or may not
\* be readable here
Layouts(version) == IF version = PROTOCOL_VERSION THEN {"v1"} ELSE {"v1", "other"}

\* bincode::deserialize::<Message>
bincode_deserialize(payload) ==
    IF payload.layout = "v1" THEN FrameOk(payload.variant) ELSE FrameErr("Deserialization")

\* AES-256-GCM: the ciphertext with its tag opens only under the key, the
\* nonce and the additional data it was sealed with
encrypt(key, plaintext, aad) ==
    [nonce |-> "n",
     ciphertext |-> [key |-> key, nonce |-> "n", msg |-> plaintext, aad |-> aad],
     len |-> NONCE_SIZE + plaintext.len + TAG_SIZE]

decrypt(key, message, aad) ==
    IF /\ message.ciphertext.key = key
       /\ message.ciphertext.nonce = message.nonce
       /\ message.ciphertext.aad = aad
    THEN FrameOk(message.ciphertext.msg)
    ELSE FrameErr("Decryption")

\* Frame::header_to_bytes
header_to_bytes(header) ==
    u16_to_le_bytes(header.version) \o <<header.message_type, 0>>
        \o u64_to_le_bytes(header.message_id) \o u64_to_le_bytes(header.timestamp)

\* Frame::encrypt
frame_encrypt(header, payload, key) ==
    [header |-> header, encrypted |-> encrypt(key, payload, header_to_bytes(header))]

\* Frame::to_bytes: the 24 bytes of the header, then nonce, ciphertext and
\* tag
frame_to_bytes(frame) ==
    [head |-> u16_to_le_bytes(frame.header.version)
                  \o <<frame.header.message_type, 0>>
                  \o u64_to_le_bytes(frame.header.message_id)
                  \o u64_to_le_bytes(frame.header.timestamp)
                  \o u32_to_le_bytes(frame.encrypted.len),
     body |-> frame.encrypted,
     len |-> HEADER_SIZE + frame.encrypted.len]

\* Frame::from_bytes
frame_from_bytes(bytes) ==
    LET version == u16_from_le_bytes(SubSeq(bytes.head, 1, 2))
        message_type == message_type_try_from(bytes.head[3])
        message_id == u64_from_le_bytes(SubSeq(bytes.head, 5, 12))
        timestamp == u64_from_le_bytes(SubSeq(bytes.head, 13, 20))
        payload_len == u32_from_le_bytes(SubSeq(bytes.head, 21, 24))
    IN  IF bytes.len < HEADER_SIZE + NONCE_SIZE + TAG_SIZE THEN FrameErr("InvalidFormat")
        ELSE IF ~message_type.ok THEN message_type
        ELSE IF bytes.len < HEADER_SIZE + payload_len THEN FrameErr("InvalidFormat")
        ELSE IF payload_len > MAX_MESSAGE_SIZE THEN FrameErr("MessageTooLarge")
        ELSE IF payload_len # bytes.body.len THEN FrameErr("InvalidFormat")
        ELSE FrameOk([header |-> MessageHeader(version, message_type.val, message_id, timestamp),
                      encrypted |-> bytes.body])

\* Frame::decrypt
frame_decrypt(frame, key) ==
    LET payload == decrypt(key, frame.encrypted, header_to_bytes(frame.header))
    IN  IF payload.ok THEN FrameOk([header |-> frame.header, payload |-> payload.val])
        ELSE payload

\* Message::deserialize
message_deserialize(header, payload) ==
    IF header.version > PROTOCOL_VERSION THEN FrameErr("UnsupportedVersion")
    ELSE bincode_deserialize(payload)

\* PeerConnection::receive_message and WebSocketTransport::receive_message
\* on the bytes of one frame
receive_message(data, key) ==
    LET frame == frame_from_bytes(data)
        opened == frame_decrypt(frame.val, key)
    IN  IF ~frame.ok THEN frame
        ELSE IF ~opened.ok THEN opened
        ELSE message_deserialize(opened.val.header, opened.val.payload)

\* broadcast, relay fallback: marker 0x01 and the message sealed under the
\* session key with the id of the target as additional data, or marker
\* 0x00 and the serialized message when no session key is found
relay_fallback_payload(serialized, key, target) ==
    IF key = NoSessionKey THEN [marker |-> 0, data |-> serialized]
    ELSE [marker |-> 1, data |-> encrypt(key, serialized, target)]

\* relay_receive_loop on one payload from the given device: a sealed
\* payload is opened with the id of the sender as additional data
relay_receive_payload(payload, key, from) ==
    IF payload.marker = 1
    THEN IF key = NoSessionKey THEN FrameErr("NoSessionKey")
         ELSE LET opened == decrypt(key, payload.data, from)
              IN  IF opened.ok THEN bincode_deserialize(opened.val) ELSE opened
    ELSE bincode_deserialize(payload.data)

NoWire == [path |-> "none"]
NoFlip == [byte |-> 0, bit |-> 0]
NoOutcome == [path |-> "none"]

VARIABLES
    fr_wire,     \* what is in flight to the receiver
    fr_flip,     \* the bit of the frame in flight that was inverted on the way
    fr_outcome   \* how the receiver ended on what it took from the wire

frameVars == <<fr_wire, fr_flip, fr_outcome>>

FrameInit ==
    /\ fr_wire = NoWire
    /\ fr_flip = NoFlip
    /\ fr_outcome = NoOutcome

\* send_message of a peer over the direct connection or the WebSocket
\* transport: header of the peer's build, payload sealed under its key
send_message(path, version, message_type, layout, key) ==
    /\ fr_wire = NoWire
    /\ \E id \in MessageIds, ts \in Timestamps :
          fr_wire' = [path |-> path, version |-> version, key |-> key,
                      header |-> MessageHeader(version, message_type, id, ts),
                      payload |-> Serialized(message_type, layout),
                      bytes |-> frame_to_bytes(frame_encrypt(
                                    MessageHeader(version, message_type, id, ts),
                                    Serialized(message_type, layout), key))]
    /\ fr_flip' = NoFlip
    /\ fr_outcome' = NoOutcome

\* broadcast of a peer falling back to the relay
relay_send(version, message_type, layout, key) ==
    /\ fr_wire = NoWire
    /\ fr_wire' = [path |-> "relay", version |-> version, key |-> key,
                   payload |-> Serialized(message_type, layout),
                   bytes |-> relay_fallback_payload(Serialized(message_type, layout), key, "B")]
    /\ fr_flip' = NoFlip
    /\ fr_outcome' = NoOutcome

\* the network inverts one bit of the authenticated part of the header
flip_header_bit(byte, bit) ==
    /\ fr_wire.path \in FramePaths
    /\ fr_flip = NoFlip
    /\ fr_flip' = [byte |-> byte, bit |-> bit]
    /\ fr_wire' = [fr_wire EXCEPT !.bytes.head[byte] = FlipBit(@, bit)]
    /\ UNCHANGED fr_outcome

\* the receiver takes the frame from the connection
frame_receive ==
    /\ fr_wire.path \in FramePaths
    /\ fr_outcome' = [path |-> fr_wire.path, sent |-> fr_wire, flip |-> fr_flip,
                      result |-> receive_message(fr_wire.bytes, ReceiverKey)]
    /\ fr_wire' = NoWire
    /\ UNCHANGED fr_flip

\* the receiver takes the payload from the relay
relay_receive_loop(key) ==
    /\ fr_wire.path = "relay"
    /\ fr_outcome' = [path |-> "relay", sent |-> fr_wire, flip |-> fr_flip,
                      result |-> relay_receive_payload(fr_wire.bytes, key, "A")]
    /\ fr_wire' = NoWire
    /\ UNCHANGED fr_flip

FrameNext ==
    \/ \E path \in FramePaths, v \in PeerVersions, ty \in SentTypes, key \in FrameKeys :
          \E layout \in Layouts(v) : send_message(path, v, ty, layout, key)
    \/ \E v \in PeerVersions, ty \in SentTypes, key \in FrameKeys \cup {NoSessionKey} :
          \E layout \in Layouts(v) : relay_send(v, ty, layout, key)
    \/ \E byte \in 1..AadSize, bit \in 0..7 : flip_header_bit(byte, bit)
    \/ frame_receive
    \/ \E key \in {ReceiverKey, NoSessionKey} : relay_receive_loop(key)

(***************************************************************************)
(* Pairing sessions and the records of paired devices (rust_core/src/api,  *)
(* crypto/pairing.rs, storage/device_storage.rs, storage/secure_storage.rs)*)
(***************************************************************************)
PAIRING_TIMEOUT_SECS == 300
CodeLen == 6

\* the numbers generate_pairing_code draws here, of 0..999999
CodeNumbers == {0, 9, 90909, 900000, 999999}

\* generate_pairing_code: format!("{:06}", code), the six decimal digits
format_code(n) == [i \in 1..CodeLen |-> (n \div (10 ^ (CodeLen - i))) % 10]

\* the digits of the codes typed in at the other device
CodeDigits == {0, 9}

RECURSIVE CodesOfLen(_)
CodesOfLen(n) ==
    IF n = 0 THEN {<<>>}
    ELSE {<<d>> \o c : d \in CodeDigits, c \in CodesOfLen(n - 1)}

TypedCodes == CodesOfLen(CodeLen)

\* constant_time_eq: result |= x ^ y over the bytes, whether it is non-zero
RECURSIVE xor_fold(_, _, _)
xor_fold(a, b, i) ==
    IF i > Len(a) THEN FALSE ELSE (a[i] # b[i]) \/ xor_fold(a, b, i + 1)

constant_time_eq_lengths(a, b) == Len(a) = Len(b)

constant_time_eq(a, b) == Len(a) = Len(b) /\ ~xor_fold(a, b, 1)

\* the devices this device pairs with
PairPeers == {"B", "C"}

\* the X25519 public key of a peer as handed to complete_pairing_code: 32
\* bytes, or cut short
PeerPublicKey(d, len) == [pub |-> Pub(<<d, "pairing", 0>>), len |-> len]
PeerKeyLengths == {KEY_SIZE, KEY_SIZE - 1}

\* hex::encode(Sha256(peer_key)[..16])
StoredId(d) == PairedDeviceId(Pub(<<d, "pairing", 0>>))

\* DeviceIdentity::generate: the k-th identity generated on this
\* installation, and its device id
GeneratedDeviceId(k) == Sha256(<<"ed25519pub", Local, k>>)

\* derive_key(identity.device_id(), StorageEncryption, "toss-session-key-v1")
session_storage_key(k) == <<"hkdf", "toss-session-key-v1", GeneratedDeviceId(k).bytes>>

\* format!("session:{}", device_id)
session_aad(id) == <<"session", id>>

\* get_or_create_storage_encryption_key: kept in the platform key store,
\* the same on every start
encrypt_for_storage(plaintext) == [sealed |-> plaintext, key |-> StorageKey(Local)]

decrypt_from_storage(encrypted) ==
    IF encrypted.key = StorageKey(Local) THEN FrameOk(encrypted.sealed)
    ELSE FrameErr("Decryption")

NoPairingSession == [code |-> <<>>, ephemeral |-> <<"none", "none", 0>>, expires_at |-> 0]
NoStoredDevice == [id |-> "none"]
NoCall == [op |-> "none"]
NoDerivedKey == [key |-> <<"none">>, len |-> 0]

VARIABLES
    p_core,      \* TOSS_INSTANCE: whether set, its identity, its pairing session
    p_ids,       \* identities generated so far on this installation
    p_sessions,  \* pairing sessions created so far
    p_rows,      \* the devices table of toss.db in the data directory
    p_now,       \* wall clock, seconds
    p_last       \* the last call of the API and what it returned

pairVars == <<p_core, p_ids, p_sessions, p_rows, p_now, p_last>>

NoCore == [set |-> FALSE, identity |-> 0, pairing_session |-> NoPairingSession]

PairInit ==
    /\ p_core = NoCore
    /\ p_ids = 0
    /\ p_sessions = 0
    /\ p_rows = [d \in PairPeers |-> NoStoredDevice]
    /\ p_now = 0
    /\ p_last = NoCall

\* PairingSession::is_expired
is_expired(session) == p_now > session.expires_at

\* PairingSession::complete
complete(session, peer_public_key, peer_code) ==
    IF is_expired(session) THEN FrameErr("SessionExpired")
    ELSE IF ~constant_time_eq(session.code, peer_code) THEN FrameErr("PairingFailed")
    ELSE FrameOk([key |-> derive_key(derive_shared_secret(session.ephemeral, peer_public_key)),
                  len |-> KEY_SIZE])

\* DeviceStorage::store_device
StoredDevice(id, public_key, session_key) ==
    [id |-> id, public_key |-> public_key,
     session_key |-> encrypt_for_storage(session_key), is_active |-> TRUE]

\* DeviceStorage::get_device: no filter on is_active, the session key
\* column opened with decrypt_from_storage
storage_get_device(d) ==
    IF p_rows[d] = NoStoredDevice THEN NoStoredDevice
    ELSE [p_rows[d] EXCEPT !.session_key = decrypt_from_storage(@)]

\* init_toss: storage opened on the data directory, identity generated
init_toss ==
    /\ p_ids < MaxInits
    /\ p_ids' = p_ids + 1
    /\ p_core' = [set |-> TRUE, identity |-> p_ids + 1, pairing_session |-> NoPairingSession]
    /\ p_last' = [op |-> "init_toss"]
    /\ UNCHANGED <<p_sessions, p_rows, p_now>>

\* shutdown_toss
shutdown_toss ==
    /\ p_core.set
    /\ p_core' = NoCore
    /\ p_last' = [op |-> "shutdown_toss"]
    /\ UNCHANGED <<p_ids, p_sessions, p_rows, p_now>>

\* start_pairing: PairingSession::new
start_pairing(n) ==
    /\ p_core.set
    /\ p_sessions < MaxPairings
    /\ p_sessions' = p_sessions + 1
    /\ p_core' = [p_core EXCEPT !.pairing_session =
                      [code |-> format_code(n),
                       ephemeral |-> <<Local, "pairing", p_sessions + 1>>,
                       expires_at |-> p_now + PAIRING_TIMEOUT_SECS]]
    /\ p_last' = [op |-> "start_pairing"]
    /\ UNCHANGED <<p_ids, p_rows, p_now>>

\* complete_pairing_code(code, peer_public_key) for the key of device d
pairing_code_call(code, d, len) ==
    LET session == p_core.pairing_session
        session_key == complete(session, PeerPublicKey(d, len).pub, code)
        encrypted == encrypt(session_storage_key(p_core.identity), session_key.val,
                             session_aad(StoredId(d)))
    IN  /\ p_core.set
        /\ session # NoPairingSession
        /\ p_core' = [p_core EXCEPT !.pairing_session = NoPairingSession]
        /\ IF len # KEY_SIZE
           THEN /\ p_last' = [op |-> "complete_pairing_code", device |-> d,
                              differs |-> code # session.code, expired |-> is_expired(session),
                              key_len |-> len, result |-> "Invalid public key length",
                              derived |-> NoDerivedKey]
                /\ UNCHANGED p_rows
           ELSE IF ~session_key.ok
           THEN /\ p_last' = [op |-> "complete_pairing_code", device |-> d,
                              differs |-> code # session.code, expired |-> is_expired(session),
                              key_len |-> len, result |-> session_key.err,
                              derived |-> NoDerivedKey]
                /\ UNCHANGED p_rows
           ELSE /\ p_last' = [op |-> "complete_pairing_code", device |-> d,
                              differs |-> code # session.code, expired |-> is_expired(session),
                              key_len |-> len, result |-> "Ok",
                              derived |-> session_key.val]
                /\ p_rows' = [p_rows EXCEPT ![d] =
                                  StoredDevice(StoredId(d), PeerPublicKey(d, len).pub, encrypted)]
        /\ UNCHANGED <<p_ids, p_sessions, p_now>>

\* remove_device(device_id): DeviceStorage::remove_device marks the row
\* inactive
remove_device(d) ==
    /\ p_core.set
    /\ p_rows' = [p_rows EXCEPT ![d] =
                      IF @ = NoStoredDevice THEN @ ELSE [@ EXCEPT !.is_active = FALSE]]
    /\ p_last' = [op |-> "remove_device", device |-> d, result |-> "Ok"]
    /\ UNCHANGED <<p_core, p_ids, p_sessions, p_now>>

\* get_device_session_key(device_id): what it returns
session_key_result(d) ==
    LET device == storage_get_device(d)
        opened == decrypt(session_storage_key(p_core.identity), device.session_key.val,
                          session_aad(StoredId(d)))
    IN  IF device = NoStoredDevice THEN FrameErr("Device not found")
        ELSE IF ~device.session_key.ok THEN FrameErr("No session key stored for this device")
        ELSE IF ~opened.ok THEN FrameErr("Failed to decrypt session key")
        ELSE opened

get_device_session_key(d) ==
    /\ p_core.set
    /\ p_last' = [op |-> "get_device_session_key", device |-> d,
                  result |-> session_key_result(d)]
    /\ UNCHANGED <<p_core, p_ids, p_sessions, p_rows, p_now>>

\* the clock passes the expiry of the pairing session
PairTick ==
    /\ p_core.pairing_session # NoPairingSession
    /\ ~is_expired(p_core.pairing_session)
    /\ p_now' = p_core.pairing_session.expires_at + 1
    /\ UNCHANGED <<p_core, p_ids, p_sessions, p_rows, p_last>>

PairNext ==
    \/ init_toss
    \/ shutdown_toss
    \/ \E n \in CodeNumbers : start_pairing(n)
    \/ \E code \in TypedCodes, d \in PairPeers, len \in PeerKeyLengths :
          pairing_code_call(code, d, len)
    \/ \E d \in PairPeers : remove_device(d)
    \/ \E d \in PairPeers : get_device_session_key(d)
    \/ PairTick

(***************************************************************************)
(* Pairing rendezvous of the relay server (relay_server/src/api/           *)
(* handlers.rs, relay_server/src/db/mod.rs)                                *)
(***************************************************************************)
DefaultPairingExpiry == 300

\* codes a request can carry: six digits, five digits, a letter among them
RendezvousCodes ==
    {<<"1", "2", "3", "4", "5", "6">>, <<"1", "2", "3", "4", "5">>,
     <<"1", "2", "3", "4", "5", "a">>}

AsciiDigits == {"0", "1", "2", "3", "4", "5", "6", "7", "8", "9"}

\* code.len() != 6 || !code.chars().all(|c| c.is_ascii_digit())
IsSixDigits(code) == Len(code) = 6 /\ \A i \in DOMAIN code : code[i] \in AsciiDigits

\* expires_in_secs of the request: absent, or a number of seconds
NoExpiry == [some |-> FALSE, secs |-> 0]
SomeExpiry(secs) == [some |-> TRUE, secs |-> secs]
ExpiresIn == {NoExpiry, SomeExpiry(1), SomeExpiry(DefaultPairingExpiry + 1)}

\* req.expires_in_secs.unwrap_or(300)
expires_in(req_expires_in_secs) ==
    IF req_expires_in_secs.some THEN req_expires_in_secs.secs ELSE DefaultPairingExpiry

\* length of the decoded public key of the request
RendezvousKeyLengths == {KEY_SIZE, KEY_SIZE - 1}

\* steps of the server clock, seconds
RendezvousClockSteps == {150, 151}

\* cleanup_old_messages(older_than_secs): the retention handed to it
older_than_secs == 1

NoPairing == [stored |-> FALSE, expires_at |-> 0, created_at |-> 0]
NoAnswer == [op |-> "none", status |-> 0]

VARIABLES
    rp_sessions,  \* table pairing_sessions: per code, the row stored
    rp_last       \* the last rendezvous request and its answer

rdvVars == <<rp_sessions, rp_last>>

RendezvousInit ==
    /\ rp_sessions = [code \in RendezvousCodes |-> NoPairing]
    /\ rp_last = NoAnswer

\* Database::register_pairing: INSERT OR REPLACE on the code
db_register_pairing(code, expires_at) ==
    [rp_sessions EXCEPT ![code] =
        [stored |-> TRUE, expires_at |-> expires_at, created_at |-> r_now]]

\* Database::find_pairing: the row of the code that has not expired
db_find_pairing(code) ==
    IF rp_sessions[code].stored /\ rp_sessions[code].expires_at > r_now
    THEN rp_sessions[code] ELSE NoPairing

\* Database::cleanup_expired_pairings
cleanup_expired_pairings ==
    [code \in RendezvousCodes |->
        IF rp_sessions[code].stored /\ rp_sessions[code].expires_at < r_now
        THEN NoPairing ELSE rp_sessions[code]]

\* Database::cleanup_old_messages
cleanup_old_messages(older_than) ==
    SelectSeq(r_queue, LAMBDA row : ~(row.created_at < r_now - older_than))

\* POST /api/v1/pairing/register
register_pairing(code, key_len, req_expires_in_secs) ==
    /\ IF ~IsSixDigits(code) \/ key_len # KEY_SIZE
       THEN /\ rp_last' = [op |-> "register_pairing", status |-> 400]
            /\ UNCHANGED rp_sessions
       ELSE /\ rp_sessions' = db_register_pairing(code, r_now + expires_in(req_expires_in_secs))
            /\ rp_last' = [op |-> "register_pairing", status |-> 200]
    /\ UNCHANGED relayVars

\* GET /api/v1/pairing/find/{code}
find_pairing(code) ==
    /\ rp_last' = [op |-> "find_pairing",
                   status |-> IF ~IsSixDigits(code) THEN 400
                              ELSE IF db_find_pairing(code).stored THEN 200 ELSE 404]
    /\ UNCHANGED <<rp_sessions, relayVars>>

\* DELETE /api/v1/pairing/{code}
relay_cancel_pairing(code) ==
    /\ rp_sessions' = [rp_sessions EXCEPT ![code] = NoPairing]
    /\ rp_last' = [op |-> "cancel_pairing",
                   status |-> IF rp_sessions[code].stored THEN 204 ELSE 404]
    /\ UNCHANGED relayVars

\* the server clock advances
RendezvousTick(dt) ==
    /\ r_now + dt <= MaxRendezvousTime
    /\ RelayTick(dt)
    /\ UNCHANGED rdvVars

\* The handlers of the server that touch the two tables the cleanup is
\* about; main starts the router and nothing else
RendezvousNext ==
    \/ \E code \in RendezvousCodes, len \in RendezvousKeyLengths, e \in ExpiresIn :
          register_pairing(code, len, e)
    \/ \E code \in RendezvousCodes : find_pairing(code)
    \/ \E code \in RendezvousCodes : relay_cancel_pairing(code)
    \/ \E d \in RelayDevices :
          /\ r_now = 0
          /\ register_device(d, OwnKey(d), "n1", AuthWindowSecs, OwnKey(d))
          /\ UNCHANGED rdvVars
    \/ \E tok \in r_tokens, to \in RelayDevices, p \in Payloads :
          /\ MsgCount < MaxRendezvousMsgs
          /\ relay_message(tok, to, p)
          /\ UNCHANGED rdvVars
    \/ \E m \in r_pending : relay_message_queue(m) /\ UNCHANGED rdvVars
    \/ \E dt \in RendezvousClockSteps : RendezvousTick(dt)

(***************************************************************************)
(* Advertisement of a pairing code (rust_core/src/pairing/coordinator.rs,  *)
(* the pairing calls of rust_core/src/api/mod.rs)                          *)
(***************************************************************************)
\* expires_in_secs: Some(300) of the registration request
AdvertisedExpirySecs == 300

\* numbers drawn for the codes of the advertised sessions
AdvertisedNumbers == {90909, 999999}

\* codes an advertised pairing session can carry
AdvertisedCodes == {format_code(n) : n \in AdvertisedNumbers}

NoRelayRecord == [stored |-> FALSE, expires_at |-> 0]
NoAdvertCall == [op |-> "none"]

VARIABLES
    ad_mdns,      \* codes whose toss-pair service is answered on the local network
    ad_relay,     \* rendezvous records of the relay, per code
    ad_requests,  \* requests this device has issued to the rendezvous endpoint
    ad_last       \* the last advertisement call of the API and what it returned

advVars == <<ad_mdns, ad_relay, ad_requests, ad_last>>

AdvertInit ==
    /\ ad_mdns = {}
    /\ ad_relay = [code \in AdvertisedCodes |-> NoRelayRecord]
    /\ ad_requests = {}
    /\ ad_last = NoAdvertCall

\* PairingCoordinator::start_advertisement: the service registered with the
\* daemon when there is one, the code posted to the relay when a relay URL
\* is configured; failures are logged only
start_advertisement(code, has_mdns, has_relay, reached) ==
    [mdns |-> IF has_mdns THEN ad_mdns \cup {code} ELSE ad_mdns,
     requests |-> IF has_relay THEN ad_requests \cup {<<"POST", code>>}
                  ELSE ad_requests,
     relay |-> IF has_relay /\ reached
               THEN [ad_relay EXCEPT ![code] =
                        [stored |-> TRUE, expires_at |-> p_now + AdvertisedExpirySecs]]
               ELSE ad_relay]

\* PairingCoordinator::stop_advertisement: the service unregistered and a
\* DELETE sent for the code
stop_advertisement(code, has_mdns, has_relay, reached) ==
    [mdns |-> IF has_mdns THEN ad_mdns \ {code} ELSE ad_mdns,
     requests |-> IF has_relay THEN ad_requests \cup {<<"DELETE", code>>}
                  ELSE ad_requests,
     relay |-> IF has_relay /\ reached
               THEN [ad_relay EXCEPT ![code] = NoRelayRecord]
               ELSE ad_relay]

\* PairingCoordinator::find_via_mdns
find_via_mdns(code) == code \in ad_mdns

\* PairingCoordinator::find_via_relay: the relay answers with the record
\* that has not expired
find_via_relay(code) == ad_relay[code].stored /\ ad_relay[code].expires_at > p_now

\* PairingCoordinator::find_device
find_device(code, has_mdns, has_relay) ==
    IF has_mdns /\ find_via_mdns(code) THEN "mdns"
    ELSE IF has_relay /\ find_via_relay(code) THEN "relay"
    ELSE "Err"

\* a lookup of the code by a device with both paths available
Findable(code) == find_device(code, TRUE, TRUE) # "Err"

\* register_pairing_advertisement: a coordinator created for the call,
\* start_advertisement on it, the coordinator dropped at the return; kept
\* is whether the daemon goes on answering for the service after the drop
register_pairing_advertisement(has_mdns, has_relay, reached, kept) ==
    LET session == p_core.pairing_session
        started == start_advertisement(session.code, has_mdns, has_relay, reached)
    IN  /\ IF ~p_core.set \/ session = NoPairingSession
           THEN /\ ad_last' = [op |-> "register_pairing_advertisement", result |-> "Err"]
                /\ UNCHANGED <<ad_mdns, ad_relay, ad_requests>>
           ELSE /\ ad_mdns' = IF kept THEN started.mdns ELSE ad_mdns
                /\ ad_relay' = started.relay
                /\ ad_requests' = started.requests
                /\ ad_last' = [op |-> "register_pairing_advertisement", result |-> "Ok",
                               code |-> session.code]
        /\ UNCHANGED pairVars

\* cancel_pairing of the API: core.pairing_session = None
cancel_pairing ==
    /\ ad_last' = [op |-> "cancel_pairing",
                   had_session |-> p_core.set /\ p_core.pairing_session # NoPairingSession,
                   code |-> p_core.pairing_session.code]
    /\ p_core' = IF p_core.set THEN [p_core EXCEPT !.pairing_session = NoPairingSession]
                 ELSE p_core
    /\ UNCHANGED <<p_ids, p_sessions, p_rows, p_now, p_last>>
    /\ UNCHANGED <<ad_mdns, ad_relay, ad_requests>>

\* find_pairing_device: the code validated, a coordinator created for the
\* call, find_device on it
find_pairing_device(code, has_mdns, has_relay) ==
    /\ ad_last' = [op |-> "find_pairing_device", code |-> code,
                   result |-> IF Len(code) # CodeLen \/ ~p_core.set THEN "Err"
                              ELSE find_device(code, has_mdns, has_relay)]
    /\ UNCHANGED <<ad_mdns, ad_relay, ad_requests>>
    /\ UNCHANGED pairVars

\* The pairing calls of the API that create, advertise, look up and cancel
\* a pairing session
AdvertNext ==
    \/ init_toss /\ UNCHANGED advVars
    \/ \E n \in AdvertisedNumbers : start_pairing(n) /\ UNCHANGED advVars
    \/ \E has_mdns, has_relay, reached, kept \in BOOLEAN :
          register_pairing_advertisement(has_mdns, has_relay, reached, kept)
    \/ cancel_pairing
    \/ \E code \in AdvertisedCodes \cup {<<1, 2, 3>>}, has_mdns, has_relay \in BOOLEAN :
          find_pairing_device(code, has_mdns, has_relay)
    \/ PairTick /\ UNCHANGED advVars

(***************************************************************************)
(* Order of the frames of concurrent send_to_peer calls on one connection  *)
(* (rust_core/src/network/mod.rs, rust_core/src/network/transport.rs)      *)
(***************************************************************************)
VARIABLES
    o_call,       \* per task: the number of its call of send_to_peer, in order of submission
    o_delivered   \* frames of the callers' messages handed to the transport, in order

ordVars == <<o_call, o_delivered>>

OrderInit ==
    /\ o_call = [t \in Tasks |-> 0]
    /\ o_delivered = <<>>

\* send_to_peer is called by the application of A for B
submit_send_to_peer(t) ==
    /\ call_send_to_peer(t, "A", "B")
    /\ o_call' = [o_call EXCEPT ![t] = n_calls + 1]
    /\ UNCHANGED o_delivered

\* send_raw of the caller's message returns: the frame is on a stream of
\* the connection the task points to
deliver_frame(t, ok) ==
    /\ int_write(t, ok)
    /\ o_delivered' = IF ok /\ n_task[t].ret = "main"
                      THEN Append(o_delivered, [call |-> o_call[t], conn |-> n_task[t].ptr])
                      ELSE o_delivered
    /\ UNCHANGED o_call

\* Scenario of SpecOrder: two tasks of A call send_to_peer for B at the
\* same time
OrderNext ==
    \/ \E has_id \in BOOLEAN : connect("A", "B", has_id) /\ UNCHANGED ordVars
    \/ \E msg \in Incoming("A", "B") : process_message("A", "B", msg) /\ UNCHANGED ordVars
    \/ \E t \in Tasks : submit_send_to_peer(t)
    \/ \E t \in Tasks : sp_start(t) /\ UNCHANGED ordVars
    \/ \E t \in Tasks : sp_send(t) /\ UNCHANGED ordVars
    \/ \E t \in Tasks, stale_ok \in BOOLEAN : int_lock(t, stale_ok) /\ UNCHANGED ordVars
    \/ \E t \in Tasks, ok \in BOOLEAN : deliver_frame(t, ok)
    \/ \E t \in Tasks, ws_connected \in BOOLEAN, ws_sent \in BOOLEAN :
          sp_fallback(t, ws_connected, ws_sent) /\ UNCHANGED ordVars
    \/ \E t \in Tasks : sp_return(t) /\ UNCHANGED ordVars

(***************************************************************************)
(* KeyRotation messages arriving at a manager over its transports          *)
(***************************************************************************)
\* the KeyRotation messages a device can send: made by the holder of
\* EnvSecret, signed by the device
KeyRotationsOf(from) == {KeyRotation(Pub(EnvSecret), sign(from, Pub(EnvSecret)))}

\* What a device hands to the relay for m carrying a KeyRotation: marker
\* 0x00 and the serialized message, or marker 0x01 and the message
\* encrypted under the session key of the pairing
KeyRotationPayloads(m, from) ==
    {[to |-> m, marker |-> 0, key |-> NoKey, aad |-> "none", msg |-> rot, paired |-> FALSE] :
        rot \in KeyRotationsOf(from)}
    \cup {[to |-> m, marker |-> 1, key |-> get_session_key(m, from), aad |-> from,
           msg |-> rot, paired |-> TRUE] : rot \in KeyRotationsOf(from)}

\* Scenario of SpecKeyRotation: A is connected to B and to the relay;
\* messages of B reach A over the connection and through the relay
KeyRotationNext ==
    \/ \E connected \in BOOLEAN : start("A", TRUE, connected)
    \/ \E has_id \in BOOLEAN : connect("A", "B", has_id)
    \/ complete_pairing_code("A", "B")
    \/ \E msg \in Incoming("A", "B") \cup {ClipboardUpdate} : process_message("A", "B", msg)
    \/ \E payload \in KeyRotationPayloads("A", "B") \cup RelayPayloads("B") :
          relay_receive("A", "B", payload)

(***************************************************************************)
(* The relay client of a started manager: its WebSocket mutex, the relay   *)
(* receive loop, a sender and stop (rust_core/src/network/relay_client.rs, *)
(* rust_core/src/network/mod.rs)                                           *)
(***************************************************************************)
\* the tasks that use the relay client
RelayTasks == {"loop", "send", "stop"}

VARIABLES
    rl_mgr,         \* NetworkManager: "new", then "started": discovery, relay_client
    rl_ws,          \* RelayClient.ws is Some
    rl_lockq,       \* tokio Mutex of ws: the holder first, then the waiters in order
    rl_pc,          \* per task: where it is
    rl_inbound,     \* frames the server has written that the client has not read
    rl_advertised,  \* the mDNS service of the device is registered with the daemon
    rl_closed,      \* close() has been called on the peer connections
    rl_done         \* what stop and the last send_to_device have done, in order

lockVars == <<rl_mgr, rl_ws, rl_lockq, rl_pc, rl_inbound, rl_advertised, rl_closed, rl_done>>

RelayLockInit ==
    /\ rl_mgr = [state |-> "new", relay_client |-> FALSE]
    /\ rl_ws = FALSE
    /\ rl_lockq = <<>>
    /\ rl_pc = [t \in RelayTasks |-> "idle"]
    /\ rl_inbound = 0
    /\ rl_advertised = FALSE
    /\ rl_closed = FALSE
    /\ rl_done = <<>>

\* self.ws.lock().await: the task joins the queue of the mutex
ws_lock(t) == rl_lockq' = Append(rl_lockq, t)

\* the task is the holder of the mutex
HoldsWs(t) == rl_lockq # <<>> /\ Head(rl_lockq) = t

\* the guard is dropped: the next waiter becomes the holder
ws_unlock == rl_lockq' = Tail(rl_lockq)

\* MdnsDiscovery::unregister: the service named by service_fullname is
\* unregistered; new() sets service_fullname to None and nothing sets it
service_fullname == FALSE
discovery_unregister(advertised) == IF service_fullname THEN FALSE ELSE advertised

\* NetworkManager::start: discovery registered when mDNS is enabled; with
\* a relay URL, connect() and authenticate(), and on success the receive
\* loop is spawned and the client stored
relay_start(enable_mdns, connected) ==
    /\ rl_mgr.state = "new"
    /\ rl_mgr' = [state |-> "started", relay_client |-> connected]
    /\ rl_advertised' = enable_mdns
    /\ rl_ws' = connected
    /\ rl_pc' = [rl_pc EXCEPT !["loop"] = IF connected THEN "recv_call" ELSE "idle"]
    /\ UNCHANGED <<rl_lockq, rl_inbound, rl_closed, rl_done>>

\* relay_receive_loop calls relay.receive(): receive_ws_message asks for
\* the mutex
loop_receive ==
    /\ rl_pc["loop"] = "recv_call"
    /\ ws_lock("loop")
    /\ rl_pc' = [rl_pc EXCEPT !["loop"] = "recv_lock"]
    /\ UNCHANGED <<rl_mgr, rl_ws, rl_inbound, rl_advertised, rl_closed, rl_done>>

\* receive_ws_message has the mutex: Err("Not connected") when ws is None,
\* otherwise it awaits ws.next() with the guard held
loop_acquire ==
    /\ rl_pc["loop"] = "recv_lock"
    /\ HoldsWs("loop")
    /\ IF rl_ws
       THEN /\ rl_pc' = [rl_pc EXCEPT !["loop"] = "recv_wait"]
            /\ UNCHANGED rl_lockq
       ELSE /\ rl_pc' = [rl_pc EXCEPT !["loop"] = "recv_sleep"]
            /\ ws_unlock
    /\ UNCHANGED <<rl_mgr, rl_ws, rl_inbound, rl_advertised, rl_closed, rl_done>>

\* ws.next() yields a frame: a text frame is returned to the loop, which
\* handles it and calls receive() again; a close frame or an error is
\* returned as Err, and the loop sleeps for a second
loop_frame(text) ==
    /\ rl_pc["loop"] = "recv_wait"
    /\ rl_inbound > 0
    /\ rl_inbound' = rl_inbound - 1
    /\ ws_unlock
    /\ rl_pc' = [rl_pc EXCEPT !["loop"] = IF text THEN "recv_call" ELSE "recv_sleep"]
    /\ UNCHANGED <<rl_mgr, rl_ws, rl_advertised, rl_closed, rl_done>>

\* tokio::time::sleep(1 s) of the loop is over
loop_wake ==
    /\ rl_pc["loop"] = "recv_sleep"
    /\ rl_pc' = [rl_pc EXCEPT !["loop"] = "recv_call"]
    /\ UNCHANGED <<rl_mgr, rl_ws, rl_lockq, rl_inbound, rl_advertised, rl_closed, rl_done>>

\* the relay server writes a frame for the client
server_frame ==
    /\ rl_ws
    /\ rl_inbound < MaxInbound
    /\ rl_inbound' = rl_inbound + 1
    /\ UNCHANGED <<rl_mgr, rl_ws, rl_lockq, rl_pc, rl_advertised, rl_closed, rl_done>>

\* RelayClient::send_to_device is called (by broadcast): the envelope is
\* built and send_ws_message asks for the mutex
send_to_device ==
    /\ rl_mgr.relay_client
    /\ rl_pc["send"] = "idle"
    /\ rl_pc["stop"] = "idle"
    /\ ws_lock("send")
    /\ rl_pc' = [rl_pc EXCEPT !["send"] = "send_lock"]
    /\ rl_done' = <<>>
    /\ UNCHANGED <<rl_mgr, rl_ws, rl_inbound, rl_advertised, rl_closed>>

\* send_ws_message has the mutex: Err("Not connected") when ws is None,
\* otherwise it awaits ws.send() with the guard held
send_acquire ==
    /\ rl_pc["send"] = "send_lock"
    /\ HoldsWs("send")
    /\ IF rl_ws
       THEN /\ rl_pc' = [rl_pc EXCEPT !["send"] = "send_write"]
            /\ UNCHANGED <<rl_lockq, rl_done>>
       ELSE /\ rl_pc' = [rl_pc EXCEPT !["send"] = "idle"]
            /\ ws_unlock
            /\ rl_done' = Append(rl_done, "send: Err")
    /\ UNCHANGED <<rl_mgr, rl_ws, rl_inbound, rl_advertised, rl_closed>>

\* ws.send() returns and send_to_device with it
send_written(ok) ==
    /\ rl_pc["send"] = "send_write"
    /\ ws_unlock
    /\ rl_pc' = [rl_pc EXCEPT !["send"] = "idle"]
    /\ rl_done' = Append(rl_done, IF ok THEN "send: Ok" ELSE "send: Err")
    /\ UNCHANGED <<rl_mgr, rl_ws, rl_inbound, rl_advertised, rl_closed>>

\* NetworkManager::stop up to relay.disconnect(): discovery.unregister(),
\* close() on every peer connection, then disconnect asks for the mutex
relay_stop ==
    /\ rl_mgr.state = "started"
    /\ rl_pc["stop"] = "idle"
    /\ rl_advertised' = discovery_unregister(rl_advertised)
    /\ rl_closed' = TRUE
    /\ IF rl_mgr.relay_client
       THEN /\ ws_lock("stop")
            /\ rl_pc' = [rl_pc EXCEPT !["stop"] = "stop_lock"]
            /\ rl_done' = <<"unregister", "close peers">>
       ELSE /\ rl_pc' = [rl_pc EXCEPT !["stop"] = "returned"]
            /\ rl_done' = <<"unregister", "close peers", "return">>
            /\ UNCHANGED rl_lockq
    /\ UNCHANGED <<rl_mgr, rl_ws, rl_inbound>>

\* disconnect has the mutex: ws.take(), ws.close(), auth_token cleared,
\* and stop returns
relay_disconnect ==
    /\ rl_pc["stop"] = "stop_lock"
    /\ HoldsWs("stop")
    /\ rl_ws' = FALSE
    /\ rl_inbound' = 0
    /\ ws_unlock
    /\ rl_pc' = [rl_pc EXCEPT !["stop"] = "returned"]
    /\ rl_done' = rl_done \o <<"disconnect", "return">>
    /\ UNCHANGED <<rl_mgr, rl_advertised, rl_closed>>

\* the steps of the tasks of the client
RelayClientSteps ==
    \/ loop_receive
    \/ loop_acquire
    \/ \E text \in BOOLEAN : loop_frame(text)
    \/ loop_wake
    \/ send_acquire
    \/ \E ok \in BOOLEAN : send_written(ok)
    \/ relay_disconnect

\* Scenario of SpecRelayLock: the manager is started, the application
\* sends through the relay and stops the manager, the server writes frames
RelayLockNext ==
    \/ \E enable_mdns, connected \in BOOLEAN : relay_start(enable_mdns, connected)
    \/ send_to_device
    \/ relay_stop
    \/ server_frame
    \/ RelayClientSteps

(***************************************************************************)
(* The relay client against the WebSocket handler of the relay server:     *)
(* connect, authenticate and send_to_device of the client                  *)
(* (rust_core/src/network/relay_client.rs), the envelope the server reads  *)
(* (relay_server/src/api/websocket.rs)                                     *)
(***************************************************************************)
\* the device of the client and the socket its connection is on the server
ClientDevice == "X"
ClientSocket == "s1"
\* a peer that speaks the envelope of the server, and its socket
PeerDevice == "Y"
PeerSocket == "s2"

\* a JSON text frame: its "type", the names of its members, the names of
\* the members of its "message" object, and the values the handlers read
Envelope(type, fields, message_fields, device_id, skew, signature, to, payload) ==
    [type |-> type, fields |-> fields, message_fields |-> message_fields,
     device_id |-> device_id, skew |-> skew, signature |-> signature,
     to_device |-> to, encrypted_payload |-> payload]

\* RelayMessage of the client and RelayMessage of the server
ClientRelayMessageFields == {"from_device", "to_device", "encrypted_payload", "timestamp"}
ServerRelayMessageFields == {"id", "from_device", "to_device", "encrypted_payload", "timestamp"}

\* authenticate of the client: json!({"type": "auth", device_id, timestamp, signature})
AuthEnvelope(d, skew, signature) ==
    Envelope("auth", {"type", "device_id", "timestamp", "signature"}, {},
             d, skew, signature, "none", "none")

\* send_to_device of the client: json!({"type": "relay", "message": msg})
ClientSendEnvelope(to, payload) ==
    Envelope("relay", {"type", "message"}, ClientRelayMessageFields,
             "none", 0, "none", to, payload)

\* WsMessage::Send and WsMessage::Relay as the server serializes them
ServerSendEnvelope(to, payload) ==
    Envelope("send", {"type", "to_device", "encrypted_payload"}, {},
             "none", 0, "none", to, payload)
ServerRelayEnvelope(to, payload) ==
    Envelope("relay", {"type", "message"}, ServerRelayMessageFields,
             "none", 0, "none", to, payload)

\* enum WsMessage, #[serde(tag = "type")]: the members each variant needs
\* (error of AuthResponse is an Option and may be absent)
WsMessageFields ==
    [auth |-> {"device_id", "timestamp", "signature"},
     relay |-> {"message"},
     send |-> {"to_device", "encrypted_payload"},
     auth_response |-> {"success"},
     error |-> {"message"}]

\* serde_json::from_str::<WsMessage>: the variant, or "Err" for an unknown
\* type or a missing member
from_str(env) ==
    IF env.type \notin DOMAIN WsMessageFields THEN "Err"
    ELSE IF ~(WsMessageFields[env.type] \subseteq env.fields) THEN "Err"
    ELSE IF env.type = "relay" /\ ~(ServerRelayMessageFields \subseteq env.message_fields)
         THEN "Err"
    ELSE env.type

\* handle_client_message returns Ok only for WsMessage::Send
HandledFromClients(env) == from_str(env) = "send"

VARIABLES
    cs_state,    \* the client: "new", "auth_sent", "active" (relay_client stored), "no_relay"
    cs_wire,     \* text frames the client has written that the server has not read
    cs_reply,    \* auth responses the server has written that the client has not read
    cs_sent,     \* number of send_to_device calls that returned Ok
    cs_handled   \* per text frame read by the main loop of handle_socket: its answer

sessVars == <<cs_state, cs_wire, cs_reply, cs_sent, cs_handled>>

SessionInit ==
    /\ cs_state = "new"
    /\ cs_wire = <<>>
    /\ cs_reply = <<>>
    /\ cs_sent = 0
    /\ cs_handled = <<>>

\* NetworkManager::start with a relay URL: RelayClient::connect, that is
\* connect_async and then authenticate up to the auth message written.
\* Nothing before it (or anywhere in the client) posts to /api/v1/register.
relay_connect(ok, skew) ==
    /\ cs_state = "new"
    /\ IF ok
       THEN /\ cs_state' = "auth_sent"
            /\ cs_wire' = Append(cs_wire, AuthEnvelope(ClientDevice, skew, OwnKey(ClientDevice)))
       ELSE /\ cs_state' = "no_relay"
            /\ UNCHANGED cs_wire
    /\ UNCHANGED <<cs_reply, cs_sent, cs_handled>>

\* handle_socket of the client's connection reads the first frame:
\* authenticate(), then WsMessage::AuthResponse is written
server_authenticate ==
    /\ cs_wire # <<>>
    /\ Head(cs_wire).type = "auth"
    /\ authenticate(ClientSocket, Head(cs_wire).device_id, Head(cs_wire).skew,
                    Head(cs_wire).signature)
    /\ cs_wire' = Tail(cs_wire)
    /\ cs_reply' = Append(cs_reply, [success |-> ws_pc'[ClientSocket] = "authenticated"])
    /\ UNCHANGED <<cs_state, cs_sent, cs_handled>>

\* authenticate of the client reads the auth response: Ok when success is
\* true (start stores the client and spawns the receive loop), otherwise
\* Err and start continues without a relay client
relay_auth_response ==
    /\ cs_state = "auth_sent"
    /\ cs_reply # <<>>
    /\ cs_state' = IF Head(cs_reply).success THEN "active" ELSE "no_relay"
    /\ cs_reply' = Tail(cs_reply)
    /\ UNCHANGED <<cs_wire, cs_sent, cs_handled>>

\* RelayClient::send_to_device(target, payload) on the stored client
submit_to_device(to, payload) ==
    /\ cs_state = "active"
    /\ cs_sent < MaxRelaySends
    /\ cs_sent' = cs_sent + 1
    /\ cs_wire' = Append(cs_wire, ClientSendEnvelope(to, payload))
    /\ UNCHANGED <<cs_state, cs_reply, cs_handled>>

\* main loop of handle_socket, receiver.next() with a text frame:
\* handle_client_message, and WsMessage::Error written when it returns Err
client_text(s, env) ==
    /\ ws_pc[s] = "active"
    /\ ~ws_broken[s]
    /\ Len(cs_handled) < MaxEnvelopes
    /\ IF HandledFromClients(env)
       THEN handle_client_message(s, env.to_device, env.encrypted_payload)
       ELSE UNCHANGED relayVars
    /\ cs_handled' = Append(cs_handled,
                        [socket |-> s, type |-> env.type, to |-> env.to_device,
                         answer |-> IF HandledFromClients(env) THEN "none" ELSE "error"])

\* the frames of the client are read in the order they were written
server_read_client ==
    /\ cs_wire # <<>>
    /\ client_text(ClientSocket, Head(cs_wire))
    /\ cs_wire' = Tail(cs_wire)
    /\ UNCHANGED <<cs_state, cs_reply, cs_sent>>

\* frames a peer writes in the envelope of the server
PeerEnvelopes ==
    {ServerSendEnvelope(ClientDevice, p) : p \in Payloads}
        \cup {ServerRelayEnvelope(ClientDevice, p) : p \in Payloads}

\* Scenario of SpecSession: the devices are registered (or not) by requests
\* that do not come from the client; the client connects, authenticates
\* and sends to the peer; the peer is connected and sends
SessionNext ==
    \/ \E d \in RelayDevices :
          /\ r_devices[d] = NoDevice
          /\ register_device(d, OwnKey(d), "n1", AuthWindowSecs, OwnKey(d))
          /\ UNCHANGED sessVars
    \/ \E ok \in BOOLEAN, skew \in Skews : relay_connect(ok, skew) /\ UNCHANGED relayVars
    \/ server_authenticate
    \/ relay_auth_response /\ UNCHANGED relayVars
    \/ authenticate(PeerSocket, PeerDevice, AuthWindowSecs, OwnKey(PeerDevice))
          /\ UNCHANGED sessVars
    \/ \E s \in Sockets : ws_register(s) /\ UNCHANGED sessVars
    \/ \E s \in Sockets : ws_fetch_queued(s) /\ UNCHANGED sessVars
    \/ \E s \in Sockets : ws_flush_one(s, TRUE) /\ UNCHANGED sessVars
    \/ \E s \in Sockets : ws_delete_queued(s) /\ UNCHANGED sessVars
    \/ \E s \in Sockets : ws_deliver(s, TRUE) /\ UNCHANGED sessVars
    \/ \E m \in r_pending : relay_message_queue(m) /\ UNCHANGED sessVars
    \/ \E p \in Payloads : submit_to_device(PeerDevice, p) /\ UNCHANGED relayVars
    \/ server_read_client
    \/ \E env \in PeerEnvelopes : client_text(PeerSocket, env) /\ UNCHANGED <<cs_state, cs_wire, cs_reply, cs_sent>>

(***************************************************************************)
(* Specifications                                                          *)
(***************************************************************************)
protoVars == <<frameVars, pairVars, rdvVars, advVars, ordVars, lockVars, sessVars>>

extVars == <<clipVars, protoVars>>

vars == <<relayVars, netVars, apiVars, extVars>>

Init ==
    /\ RelayInit /\ NetInit /\ ApiInit /\ ClipInit /\ FrameInit /\ PairInit
    /\ RendezvousInit /\ AdvertInit /\ OrderInit /\ RelayLockInit /\ SessionInit

SpecApi == Init /\ [][ApiNext /\ UNCHANGED <<relayVars, extVars>>]_vars

SpecRelay == Init /\ [][RelayNext /\ UNCHANGED <<netVars, apiVars, extVars>>]_vars

SpecRegister == Init /\ [][RegNext /\ UNCHANGED <<netVars, apiVars, extVars>>]_vars

SpecToken == Init /\ [][TokenNext /\ UNCHANGED <<netVars, apiVars, extVars>>]_vars

SpecUnreg == Init /\ [][UnregNext /\ UNCHANGED <<netVars, apiVars, extVars>>]_vars

SpecFull == Init /\ [][FullNext /\ UNCHANGED <<netVars, apiVars, extVars>>]_vars

SpecConn == Init /\ [][ConnNext /\ UNCHANGED <<netVars, apiVars, extVars>>]_vars

SpecBroadcast == Init /\ [][BroadcastNext /\ UNCHANGED <<relayVars, apiVars, extVars>>]_vars

SpecNet == Init /\ [][NetNext /\ UNCHANGED <<relayVars, apiVars, extVars>>]_vars

SpecSend == Init /\ [][SendNext /\ UNCHANGED <<relayVars, apiVars, extVars>>]_vars

SpecCount == Init /\ [][CountNext /\ UNCHANGED <<relayVars, apiVars, extVars>>]_vars

SpecClip == Init /\ [][ClipNext /\ UNCHANGED <<relayVars, protoVars>>]_vars

SpecFrame == Init /\ [][FrameNext /\ UNCHANGED <<relayVars, netVars, apiVars, clipVars, pairVars, rdvVars, advVars, ordVars, lockVars, sessVars>>]_vars

SpecPair == Init /\ [][PairNext /\ UNCHANGED <<relayVars, netVars, apiVars, clipVars, frameVars, rdvVars, advVars, ordVars, lockVars, sessVars>>]_vars

SpecRendezvous ==
    Init /\ [][RendezvousNext /\ UNCHANGED <<netVars, apiVars, clipVars, frameVars, pairVars, advVars, ordVars, lockVars, sessVars>>]_vars

\* the clock of the server does not stop
SpecCleanup ==
    /\ Init
    /\ [][RendezvousNext /\ UNCHANGED <<netVars, apiVars, clipVars, frameVars, pairVars, advVars, ordVars, lockVars, sessVars>>]_vars
    /\ WF_r_now(\E dt \in RendezvousClockSteps : RendezvousTick(dt))

SpecAdvert ==
    Init /\ [][AdvertNext /\ UNCHANGED <<relayVars, netVars, apiVars, clipVars, frameVars, rdvVars, ordVars, lockVars, sessVars>>]_vars

SpecOrder ==
    Init /\ [][OrderNext /\ UNCHANGED <<relayVars, apiVars, clipVars, frameVars, pairVars, rdvVars, advVars, lockVars, sessVars>>]_vars

SpecKeyRotation == Init /\ [][KeyRotationNext /\ UNCHANGED <<relayVars, apiVars, extVars>>]_vars

SpecRelayLock ==
    Init /\ [][RelayLockNext /\ UNCHANGED <<relayVars, netVars, apiVars, clipVars, frameVars, pairVars, rdvVars, advVars, ordVars, sessVars>>]_vars

\* the runtime goes on polling every task that can take a step; when the
\* server writes a frame is not up to the client
SpecRelayLockFair ==
    /\ SpecRelayLock
    /\ WF_rl_pc(RelayClientSteps)

SpecSession ==
    Init /\ [][SessionNext /\ UNCHANGED <<netVars, apiVars, clipVars, frameVars, pairVars, rdvVars, advVars, ordVars, lockVars>>]_vars

SpecRotation == Init /\ [][RotNext /\ UNCHANGED <<relayVars, apiVars, extVars>>]_vars

(***************************************************************************)
(* Properties of the relay server                                          *)
(***************************************************************************)
\* Acceptance records of messages answered 202 by POST /relay while the
\* recipient had no entry in the live-connection map
OfflineAccepted == {a \in Range(r_accepted) : a.via = "queue" /\ ~a.live}

InQueue(id) == \E i \in DOMAIN r_queue : r_queue[i].id = id

WrittenTo(d, a) ==
    \E i \in DOMAIN r_delivered[d] :
        r_delivered[d][i] = RelayMsg(a.id, a.from, a.to, a.payload)

\* C1: a message accepted with 202 while the recipient had no live
\* connection is stored in the recipient's queue and stays there until it
\* has been written, with the payload the sender gave, to the recipient's
\* WebSocket; it is never dropped undelivered.
C1_OfflineMessageQueuedUntilDelivered ==
    \A a \in OfflineAccepted : InQueue(a.id) \/ WrittenTo(a.to, a)

\* C4: messages accepted for an offline recipient are written to the
\* recipient's WebSocket in the order in which they were accepted.
C4_OfflineDeliveryInAcceptanceOrder ==
    \A d \in RelayDevices :
      \A i \in DOMAIN r_delivered[d] : \A j \in DOMAIN r_delivered[d] :
        (/\ i < j
         /\ \E a \in OfflineAccepted : a.id = r_delivered[d][i].id
         /\ \E a \in OfflineAccepted : a.id = r_delivered[d][j].id)
        => r_delivered[d][i].id <= r_delivered[d][j].id


(***************************************************************************)
(* Properties of the client network manager                                *)
(***************************************************************************)
Count(seq, x) == Cardinality({i \in DOMAIN seq : seq[i] = x})

ExchangeComplete(a, b) ==
    /\ IsPeer(a, b) /\ IsPeer(b, a)
    /\ n_eph[a][b].present
    /\ n_eph[b][a].peer_public_key = n_eph[a][b].public_key
    /\ \E i \in DOMAIN n_wire[a][b] :
          /\ n_wire[a][b][i].msg.type = "KeyRotation"
          /\ n_wire[a][b][i].msg.new_public_key = n_eph[a][b].public_key

C8_ErrorOnlyAfterAllTransports ==
    \A t \in Tasks :
        n_task[t].pc = "sp_failed" =>
            {"direct", "ws", "relay"} \subseteq n_task[t].tried

\* C9: a failed write removes the connection from the peer map and emits
\* PeerDisconnected, once per removed connection, before the fallback: the
\* number of PeerDisconnected events for a peer equals the number of its
\* connections removed, and while a call is in its fallback the connection
\* it wrote to is not in the map.
C9_FailedWriteEvictsAndEmitsOnce ==
    /\ \A m \in Mgrs : \A d \in Devices :
          Count(n_events[m], PeerDisconnected(d)) = n_evicted[m][d]
    /\ \A t \in Tasks :
          (n_task[t].pc = "sp_fallback" /\ n_task[t].ptr # 0) =>
              n_peers[n_task[t].m][n_task[t].dev].gen # n_task[t].ptr

\* C9 witness: two calls failed on the same connection at the same time;
\* the connection was removed once and one event was emitted
C9_Witness ==
    /\ n_task["t1"].pc = "sp_fallback" /\ n_task["t2"].pc = "sp_fallback"
    /\ n_task["t1"].ptr # 0 /\ n_task["t1"].ptr = n_task["t2"].ptr
    /\ n_evicted["A"]["B"] = 1
    /\ Count(n_events["A"], PeerDisconnected("B")) = 1

C5_OnlyPairedNotSelfSurfaced ==
    \A i \in DOMAIN a_polled :
        a_polled[i].result.kind = "ClipboardReceived" =>
            /\ a_polled[i].paired
            /\ a_polled[i].event.device_id # Local

\* C5 witness: poll_event has taken a message of the unknown device C and a
\* message under the id of the local device, and returned None for both
C5_Witness ==
    /\ \E i \in DOMAIN a_polled :
          /\ a_polled[i].event.event = "MessageReceived"
          /\ a_polled[i].event.device_id = "C"
          /\ a_polled[i].result = NoEvent
    /\ \E i \in DOMAIN a_polled :
          /\ a_polled[i].event.event = "MessageReceived"
          /\ a_polled[i].event.device_id = Local
          /\ a_polled[i].result = NoEvent

\* C6: a ClipboardUpdate of a paired peer other than the local device that
\* poll_event takes from the receiver, within the size limit, is surfaced
\* as ClipboardReceived.
C6_PairedClipboardUpdateSurfaced ==
    \A i \in DOMAIN a_polled :
        (/\ a_polled[i].event.event = "MessageReceived"
         /\ a_polled[i].event.message.type = "ClipboardUpdate"
         /\ a_polled[i].event.message.size_bytes <= max_size
         /\ a_polled[i].paired
         /\ a_polled[i].event.device_id # Local)
        => a_polled[i].result.kind = "ClipboardReceived"

(***************************************************************************)
(* Properties of the session tracker and of rotation                       *)
(***************************************************************************)
\* Positions of a call of send_to_peer after its rotation check
AfterRotationCheck ==
    {"int_lock", "int_write", "rot_install", "sp_send", "sp_fallback", "sp_done", "sp_failed"}

\* Frames written on the connection of A to B, runs expanded to their length
WireCount(m, d, type) ==
    LET w == n_wire[m][d]
        idx == {i \in DOMAIN w : w[i].msg.type = type}
        RECURSIVE Total(_)
        Total(S) == IF S = {} THEN 0
                    ELSE LET i == CHOOSE x \in S : TRUE IN w[i].n + Total(S \ {i})
    IN Total(idx)

AuthVerified(a) ==
    /\ a.device_id \in RelayDevices
    /\ a.skew <= 300
    /\ a.pk # NoDevice.pk
    /\ a.signer = a.pk

Authenticated(s) == AuthVerified(ws_auth[s]) /\ ws_auth[s].device_id = ws_dev[s]

SentOver(d) == {a \in Range(r_accepted) : a.from = d /\ a.via \in {"ws_push", "ws_queue"}}

\* C13: a socket is registered as device D's outgoing channel, and its
\* send messages are processed, only after an auth message for D arrived
\* on it whose timestamp is within 300 s of the server clock and whose
\* signature verifies under D's stored public key; a socket whose auth
\* message fails stays unregistered.
C13_RegisteredOnlyAfterAuth ==
    /\ \A s \in Sockets : ws_pc[s] # "idle" => Authenticated(s)
    /\ \A d \in RelayDevices :
          r_conns[d] # NoConn => Authenticated(r_conns[d]) /\ ws_dev[r_conns[d]] = d
    /\ \A s \in Sockets : ws_pc[s] = "idle" => \A d \in RelayDevices : r_conns[d] # s
    /\ \A a \in Range(r_accepted) : a.via \in {"ws_push", "ws_queue"} =>
          r_devices[a.from] # NoDevice

C13_Witness ==
    \E s \in Sockets :
        /\ ws_pc[s] = "active"
        /\ r_conns[ws_dev[s]] = s
        /\ ws_auth[s].skew = 300
        /\ SentOver(ws_dev[s]) # {}
        /\ \E t \in Sockets \ {s} : ws_pc[t] = "idle"

(***************************************************************************)
(* Properties of registration and of bearer tokens                         *)
(***************************************************************************)
\* the request is fresh and signed by the key it carries
RegistrationVerified(q) == q.skew <= 300 /\ q.signature = q.pk

\* C14: POST /register upserts the device and issues a token only if the
\* timestamp is within 300 s of the server clock and the signature
\* verifies under the public key of the request; any other request is
\* answered with a client error, writes no device row and issues no token.
C14_RegisterOnlyVerified ==
    [][(r_reg'.op = "register" /\ r_reg' # r_reg) =>
          /\ r_reg'.status = 200 => RegistrationVerified(r_reg')
          /\ (r_devices' # r_devices \/ r_tokens' # r_tokens) =>
                /\ r_reg'.status = 200
                /\ r_devices'[r_reg'.device_id] # NoDevice
                /\ r_reg'.token \in r_tokens'
          /\ ~RegistrationVerified(r_reg') =>
                /\ r_reg'.status \in 400..499
                /\ r_reg'.token = NoToken
                /\ UNCHANGED <<r_devices, r_tokens>>]_vars

C14_Witness ==
    /\ r_reg.op = "register"
    /\ r_reg.status = 401
    /\ r_reg.skew = 300
    /\ r_devices[r_reg.device_id] = NoDevice
    /\ r_tokens # {}

\* C15: two successive registrations of one device id with valid
\* signatures and different names both succeed, and the one row of that
\* id then carries the second name.
C15_SecondRegistrationUpdatesName ==
    (r_reg.op = "register" /\ r_del[r_reg.device_id] = "none") =>
        /\ RegistrationVerified(r_reg) => r_reg.status = 200
        /\ r_reg.status = 200 =>
              /\ r_devices[r_reg.device_id] # NoDevice
              /\ r_devices[r_reg.device_id].name = r_reg.name

C15_Witness ==
    /\ r_reg.op = "register"
    /\ r_reg.status = 200
    /\ r_reg.before # NoDevice
    /\ r_reg.before.name = "n1"
    /\ r_reg.name = "n2"
    /\ r_devices[r_reg.device_id].name = "n2"

\* C18: with JWT_EXPIRATION = 1, a request that presents a token 2 s or
\* more after the token was issued is answered 401.
C18_ExpiredTokenRejected ==
    (/\ r_reg.op \in {"unregister", "unregistering"}
     /\ r_reg.token # NoToken
     /\ jwt_expiration = 1
     /\ r_reg.at >= r_reg.token.iat + 2)
    => r_reg.status = 401

\* C16: after DELETE /register by device D has been answered 204, D has
\* no device row, no queued message to or from D remains and D has no
\* entry in the live-connection map, whatever relay requests or WebSocket
\* activity ran at the same time.
C16_UnregisteredDeviceIsGone ==
    (r_reg.op = "unregister" /\ r_reg.status = 204) =>
        /\ r_devices[r_reg.device_id] = NoDevice
        /\ ~HasQueueRows(r_reg.device_id)
        /\ r_conns[r_reg.device_id] = NoConn

(***************************************************************************)
(* Properties of the live-connection map                                   *)
(***************************************************************************)
\* sockets on which handle_socket is between register() and its cleanup
OpenFor(d) ==
    {s \in Sockets : ws_dev[s] = d /\
                     ws_pc[s] \in {"registered", "flushing", "deleting", "active"}}

\* C17: after any sequence of connects, reconnects and disconnects, the
\* live-connection map has an entry for device D, and device_status
\* reports is_online = true, exactly when D has an authenticated
\* WebSocket connection that is still open.
C17_MapEntryIffOpenConnection ==
    \A d \in RelayDevices :
        /\ is_connected(d) <=> OpenFor(d) # {}
        /\ r_devices[d] # NoDevice => (device_status(d).is_online <=> OpenFor(d) # {})

\* C19: a push to a live recipient whose channel already holds its 100
\* undelivered messages does not wait for space; it is dropped and the
\* message goes to message_queue.
C19_FullChannelPushIsQueued ==
    \A d \in RelayDevices :
        (is_connected(d) /\ Len(ws_chan[r_conns[d]]) = 100) =>
            \A w \in r_waiting : w.to # d

\* relay requests of device d answered 202 (pushed or queued)
RelayAccepted(d) ==
    {i \in DOMAIN r_accepted :
        r_accepted[i].from = d /\ r_accepted[i].via \in {"push", "queue"}}

\* C20: within one minute no more than RATE_LIMIT_MESSAGES relay requests
\* of one device are pushed or queued; the requests beyond that number
\* are answered 429.
C20_RelayRequestsRateLimited ==
    r_now < 60 =>
        \A d \in RelayDevices : Cardinality(RelayAccepted(d)) <= rate_limit_messages

(***************************************************************************)
(* Properties of the client API                                            *)
(***************************************************************************)
\* C21: of two consecutive calls of send_clipboard less than 100 ms apart,
\* the second returns the rate-limit error and emits no network traffic.
C21_SecondSendWithin100MsRateLimited ==
    \A i \in DOMAIN c_sends :
        (i > 1 /\ c_sends[i].at - c_sends[i - 1].at < 100) =>
            (c_sends[i].result = "Rate limit" /\ ~c_sends[i].broadcast)

\* C22: poll_event and start_event_listener return in every state of the
\* global instance and for every event at the head of the queue; no call
\* of the API waits for the lock of the global instance while it holds a
\* guard on it.
C22_ApiCallsReturn == ~a_stuck


(***************************************************************************)
(* Properties of the wire protocol                                         *)
(***************************************************************************)
\* the receiver holds the key the frame was sealed under
SealedForReceiver(o) == o.path \in FramePaths /\ o.sent.key = ReceiverKey

\* C23: for every frame of the encryptor, inverting one bit of one of the
\* first 20 bytes of its serialized form makes the decryptor, holding the
\* right key, return the authentication failure.
C23_HeaderBitFlipFailsAuthentication ==
    (SealedForReceiver(fr_outcome) /\ fr_outcome.flip # NoFlip) =>
        fr_outcome.result = FrameErr("Decryption")

\* C24: on every receive path a frame or relay payload of a build with a
\* version above PROTOCOL_VERSION ends with UnsupportedVersion and yields
\* no message; one of this build's version arrives as a message.
C24_LaterVersionRejectedOnEveryPath ==
    (/\ fr_outcome.path # "none"
     /\ fr_outcome.flip = NoFlip
     /\ fr_outcome.sent.key \in {ReceiverKey, NoSessionKey}) =>
        /\ fr_outcome.sent.version > PROTOCOL_VERSION =>
               fr_outcome.result = FrameErr("UnsupportedVersion")
        /\ fr_outcome.sent.version = PROTOCOL_VERSION =>
               (fr_outcome.path \in FramePaths => fr_outcome.result.ok)


(***************************************************************************)
(* Properties of pairing and of the stored session keys                    *)
(***************************************************************************)
\* a call of complete_pairing_code on a live session with a 32-byte key
\* and a typed code that differs from the code of the session
MismatchedCompletion ==
    /\ p_core.pairing_session # NoPairingSession
    /\ p_last'.op = "complete_pairing_code"
    /\ p_last'.differs

\* C25: completing the pairing with a 6-digit code that differs from the
\* code of the local session fails, derives no session key and stores no
\* record, whatever the two codes are; the error is PairingFailed.
C25_WrongCodeFailsPairing ==
    [][MismatchedCompletion =>
          /\ p_rows' = p_rows
          /\ p_last'.derived = NoDerivedKey
          /\ p_last'.result # "Ok"
          /\ (~p_last'.expired /\ p_last'.key_len = KEY_SIZE) =>
                 p_last'.result = "PairingFailed"]_vars

C25_Witness ==
    /\ p_last.op = "complete_pairing_code"
    /\ p_last.differs
    /\ ~p_last.expired
    /\ p_last.key_len = KEY_SIZE
    /\ p_last.result = "PairingFailed"


\* the session key sealed in the record of device d when it was paired
StoredSessionKey(d) == p_rows[d].session_key.sealed.ciphertext.msg

\* C26: whatever calls of init_toss, pairing and shutdown_toss were made on
\* the data directory, every record of a paired device opens under the
\* current storage key: get_device_session_key returns the 32-byte
\* session key that was stored for the device.
C26_StoredSessionKeysDecrypt ==
    p_core.set =>
        \A d \in PairPeers :
            p_rows[d] # NoStoredDevice =>
                /\ session_key_result(d).ok
                /\ session_key_result(d).val = StoredSessionKey(d)
                /\ session_key_result(d).val.len = KEY_SIZE

\* C27: after remove_device(D) no session-key blob of D is left in the
\* store and get_device_session_key(D) returns no key.
C27_RemovedDeviceKeyDestroyed ==
    p_last.op = "remove_device" =>
        /\ p_rows[p_last.device] = NoStoredDevice
        /\ ~session_key_result(p_last.device).ok


(***************************************************************************)
(* Properties of the pairing rendezvous and of the cleanup                 *)
(***************************************************************************)
\* C28: every pairing record the relay stores expires at most 300 s after
\* it was registered, whatever expires_in_secs the request carried.
C28_PairingRecordExpiresWithin300 ==
    \A code \in RendezvousCodes :
        rp_sessions[code].stored =>
            rp_sessions[code].expires_at - rp_sessions[code].created_at <= 300

\* the code is advertised: answered on the local network or held by the relay
Advertised(code) == code \in ad_mdns \/ ad_relay[code].stored

\* C29: after cancel_pairing on a device with an advertised pairing session,
\* the local advertisement of its code has been unregistered, a DELETE for the
\* code has been issued to the rendezvous endpoint of the relay, and a later
\* lookup of the code does not find the device
C29_CancelStopsAdvertisement ==
    (/\ ad_last.op = "cancel_pairing"
     /\ ad_last.had_session
     /\ Advertised(ad_last.code))
        => /\ ad_last.code \notin ad_mdns
           /\ <<"DELETE", ad_last.code>> \in ad_requests
           /\ ~Findable(ad_last.code)

\* a queued message older than the retention is in the queue
HasOldMessage == cleanup_old_messages(older_than_secs) # r_queue

\* a pairing session past expires_at is in the table
HasExpiredPairing == cleanup_expired_pairings # rp_sessions

\* C30: without any request of a client, the periodic cleanup of the relay
\* eventually deletes every queued message older than the retention and
\* every pairing session past expires_at.
C30_CleanupEventuallyDeletes ==
    /\ HasOldMessage ~> ~HasOldMessage
    /\ HasExpiredPairing ~> ~HasExpiredPairing

(***************************************************************************)
(* Locks, borrows and suspension points of the client                      *)
(***************************************************************************)
\* the task is suspended in send_raw (open_uni, write_all) of send_message
InSocketWrite(t) == n_task[t].pc = "int_write"

\* the task holds the session_key mutex of the connection it writes to
HoldsSessionKeyLock(t) ==
    /\ n_task[t].m \in Mgrs
    /\ n_task[t].dev \in Devices
    /\ n_peers[n_task[t].m][n_task[t].dev].lock = t

C32_KeyRotationNeverEmitted ==
    \A m \in Mgrs : \A i \in DOMAIN n_events[m] :
        n_events[m][i].event = "MessageReceived"
            => n_events[m][i].message.type # "KeyRotation"

\* C33: a row leaves message_queue only after the message it holds has been
\* written to the WebSocket of its recipient; a row inserted while a flush is
\* running and a row not written when a flush stopped stay in the queue
C33_DeletedOnlyAfterWritten ==
    [][\A i \in DOMAIN r_queue :
          (\A j \in DOMAIN r_queue' : r_queue'[j].id # r_queue[i].id)
              => WrittenTo(r_queue[i].to, r_queue[i])]_vars

\* the public key the devices table holds for the device of a registration
\* request once the request has been handled
StoredKeyFor(q) == IF q.before = NoDevice THEN q.pk ELSE q.before.pk

\* C34: a token with sub = D is issued only to a requester whose signature
\* verifies under the public key stored for D; a registration for an id that
\* is already registered, presenting another public key, obtains no token
C34_TokenOnlyForStoredKey ==
    (r_reg.op = "register" /\ r_reg.token # NoToken)
        => r_reg.signature = StoredKeyFor(r_reg)

\* stop has returned after its three steps took effect, in their order
StopInOrder ==
    rl_pc["stop"] = "returned"
        => /\ ~rl_advertised
           /\ rl_closed
           /\ ~rl_ws
           /\ rl_done \in {<<"unregister", "close peers", "disconnect", "return">>,
                           <<"unregister", "close peers", "return">>}

\* a stop that has been called returns
StopTerminates == (rl_pc["stop"] = "stop_lock") ~> (rl_pc["stop"] = "returned")

\* C31: shutdown of the network manager stops the advertisement, closes
\* every peer connection, disconnects the relay client and then returns,
\* in this order, and it terminates also when the relay receive loop is
\* waiting for an inbound message at that moment
C31_ShutdownInOrderAndTerminates == []StopInOrder /\ StopTerminates

\* C40: RelayClient.send_to_device never waits for an inbound message to
\* arrive: no send waits for the WebSocket mutex while the receive loop
\* holds it waiting for the next frame and no frame has been written
C40_SendNeverWaitsForInbound ==
    ~(/\ rl_pc["send"] = "send_lock"
      /\ HoldsWs("loop")
      /\ rl_pc["loop"] = "recv_wait"
      /\ rl_inbound = 0)

\* C38: a message the client submits through send_to_device is accepted
\* by the WebSocket handler of the server and routed, not answered with an
\* error: the envelope the client writes is one the server handles from
\* clients
C38_ClientEnvelopeHandled ==
    \A i \in DOMAIN cs_handled :
        cs_handled[i].socket = ClientSocket => cs_handled[i].answer = "none"

\* C39: when the client has sent the WebSocket auth message for its device
\* id, that device id is registered on the relay with the public key of
\* the client
C39_RegisteredBeforeAuth ==
    cs_state = "auth_sent"
        => /\ r_devices[ClientDevice] # NoDevice
           /\ r_devices[ClientDevice].pk = OwnKey(ClientDevice)
=========================================================================
